---- MODULE Spec2Model ----
(***************************************************************************)
(* rustwave: the play queue (managers/queue.rs, utilities.rs), the OAuth2  *)
(* token lifecycle (soundcloud/auth.rs), the audio playback controller     *)
(* (managers/audio.rs) and the update loop of the application (main.rs).   *)
(*                                                                         *)
(* Option<T> is modelled as a sequence of length at most one:              *)
(* None == <<>>, Some(x) == <<x>>.                                         *)
(***************************************************************************)
EXTENDS Integers, Sequences, FiniteSets, TLC

None == <<>>

Some(x) == <<x>>

IsSome(o) == o # <<>>

Unwrap(o) == o[1]

(***************************************************************************)
(* Bounds of the queue model.                                              *)
(***************************************************************************)
MaxTrackId == 3

MaxLen == 3

TrackIds == 1..MaxTrackId

\* an id that no track of the model carries (u64 has plenty of them)
AbsentId == MaxTrackId + 1

\* of a track the queue reads the id only
SoundCloudTrack == [id : TrackIds]

RECURSIVE SeqsUpTo(_, _)
SeqsUpTo(S, n) ==
    IF n = 0 THEN {<<>>}
    ELSE LET shorter == SeqsUpTo(S, n - 1)
         IN  shorter \cup {Append(s, x) : s \in {t \in shorter : Len(t) = n - 1}, x \in S}

TrackLists == SeqsUpTo(SoundCloudTrack, MaxLen)

VARIABLES
    queue,            \* QueueManager.queue
    current_index,    \* QueueManager.current_index : Option<usize>
    original_tracks,  \* QueueManager.original_tracks
    q_call            \* the last QueueManager call: its name, arguments and return value

qvars == <<queue, current_index, original_tracks, q_call>>

(***************************************************************************)
(* utilities.rs: get_track_queue                                           *)
(***************************************************************************)
\* a search that keeps the last match instead of the first
position_last(track_id, tracks) ==
    LET hits == {i \in 1..Len(tracks) : tracks[i].id = track_id}
    IN  IF hits = {} THEN None
        ELSE Some(CHOOSE i \in hits : \A j \in hits : i >= j)

\* tracks.iter().position(|t| t.id == track_id)
position(track_id, tracks) ==
    LET hits == {i \in 1..Len(tracks) : tracks[i].id = track_id}
    IN  IF hits = {} THEN None
        ELSE Some(CHOOSE i \in hits : \A j \in hits : i <= j)

\* tracks.split_off(pos): the elements from pos to the end
split_off(tracks, pos) == SubSeq(tracks, pos, Len(tracks))

\* a lookup that falls back to the start of the list when the id is not found
get_track_queue_or_all(track_id, tracks) ==
    LET pos == position(track_id, tracks)
    IN  IF IsSome(pos) THEN split_off(tracks, Unwrap(pos)) ELSE tracks

get_track_queue(track_id, tracks) ==
    LET pos == position(track_id, tracks)
    IN  IF IsSome(pos) THEN split_off(tracks, Unwrap(pos)) ELSE <<>>

(***************************************************************************)
(* managers/queue.rs: QueueManager.  Indices are 0-based as in the source; *)
(* the element at index i of a sequence s is s[i + 1].                     *)
(***************************************************************************)
\* VecDeque::get(index)
get(q, index) == IF index < Len(q) THEN Some(q[index + 1]) ELSE None

current_track_of(q, idx) == IF IsSome(idx) THEN get(q, Unwrap(idx)) ELSE None

current_track == current_track_of(queue, current_index)

\* has_next with the bound check off by one
has_next_at_last_index ==
    IF IsSome(current_index) THEN Unwrap(current_index) + 1 <= Len(queue) ELSE FALSE

has_next ==
    IF IsSome(current_index) THEN Unwrap(current_index) + 1 < Len(queue) ELSE FALSE

has_previous ==
    IF IsSome(current_index) THEN Unwrap(current_index) > 0 ELSE FALSE

current_position == current_index

queue_length == Len(queue)

QueueInit ==
    /\ queue = <<>>
    /\ current_index = None
    /\ original_tracks = <<>>
    /\ q_call = [op |-> "new", id |-> 0, list |-> <<>>, ret |-> None]

start_queue_from_track(track_id, tracks) ==
    LET queue_tracks == get_track_queue(track_id, tracks)
    IN  /\ original_tracks' = tracks
        /\ queue' = queue_tracks
        /\ current_index' = IF queue_tracks = <<>> THEN None ELSE Some(0)
        /\ q_call' = [op |-> "start_queue_from_track", id |-> track_id,
                      list |-> tracks, ret |-> None]

\* next_track with the bound check off by one
next_track_past_end ==
    IF IsSome(current_index) /\ Unwrap(current_index) + 1 <= Len(queue)
    THEN /\ current_index' = Some(Unwrap(current_index) + 1)
         /\ q_call' = [op |-> "next_track", id |-> 0, list |-> <<>>,
                       ret |-> current_track_of(queue, current_index')]
         /\ UNCHANGED <<queue, original_tracks>>
    ELSE /\ q_call' = [op |-> "next_track", id |-> 0, list |-> <<>>, ret |-> None]
         /\ UNCHANGED <<queue, current_index, original_tracks>>

\* next_track as a queue that drops the track it leaves: the cursor stays, the front
\* of the queue is removed
next_track_popping_front ==
    IF IsSome(current_index) /\ Unwrap(current_index) + 1 < Len(queue)
    THEN /\ queue' = Tail(queue)
         /\ current_index' = current_index
         /\ q_call' = [op |-> "next_track", id |-> 0, list |-> <<>>,
                       ret |-> current_track_of(queue', current_index')]
         /\ UNCHANGED original_tracks
    ELSE /\ q_call' = [op |-> "next_track", id |-> 0, list |-> <<>>, ret |-> None]
         /\ UNCHANGED <<queue, current_index, original_tracks>>

next_track ==
    IF IsSome(current_index) /\ Unwrap(current_index) + 1 < Len(queue)
    THEN /\ current_index' = Some(Unwrap(current_index) + 1)
         /\ q_call' = [op |-> "next_track", id |-> 0, list |-> <<>>,
                       ret |-> current_track_of(queue, current_index')]
         /\ UNCHANGED <<queue, original_tracks>>
    ELSE /\ q_call' = [op |-> "next_track", id |-> 0, list |-> <<>>, ret |-> None]
         /\ UNCHANGED <<queue, current_index, original_tracks>>

\* previous_track answering with the current track whether it moved or not
previous_track_always_current ==
    IF IsSome(current_index) /\ Unwrap(current_index) > 0
    THEN /\ current_index' = Some(Unwrap(current_index) - 1)
         /\ q_call' = [op |-> "previous_track", id |-> 0, list |-> <<>>,
                       ret |-> current_track_of(queue, current_index')]
         /\ UNCHANGED <<queue, original_tracks>>
    ELSE /\ q_call' = [op |-> "previous_track", id |-> 0, list |-> <<>>,
                       ret |-> current_track]
         /\ UNCHANGED <<queue, current_index, original_tracks>>

\* previous_track answering with the track that was current before the move
previous_track_old_current ==
    IF IsSome(current_index) /\ Unwrap(current_index) > 0
    THEN /\ current_index' = Some(Unwrap(current_index) - 1)
         /\ q_call' = [op |-> "previous_track", id |-> 0, list |-> <<>>,
                       ret |-> current_track]
         /\ UNCHANGED <<queue, original_tracks>>
    ELSE /\ q_call' = [op |-> "previous_track", id |-> 0, list |-> <<>>, ret |-> None]
         /\ UNCHANGED <<queue, current_index, original_tracks>>

previous_track ==
    IF IsSome(current_index) /\ Unwrap(current_index) > 0
    THEN /\ current_index' = Some(Unwrap(current_index) - 1)
         /\ q_call' = [op |-> "previous_track", id |-> 0, list |-> <<>>,
                       ret |-> current_track_of(queue, current_index')]
         /\ UNCHANGED <<queue, original_tracks>>
    ELSE /\ q_call' = [op |-> "previous_track", id |-> 0, list |-> <<>>, ret |-> None]
         /\ UNCHANGED <<queue, current_index, original_tracks>>

\* clear that empties the vectors and leaves the cursor where it was
clear_keeping_cursor ==
    /\ queue' = <<>>
    /\ original_tracks' = <<>>
    /\ q_call' = [op |-> "clear", id |-> 0, list |-> <<>>, ret |-> None]
    /\ UNCHANGED current_index

clear ==
    /\ queue' = <<>>
    /\ current_index' = None
    /\ original_tracks' = <<>>
    /\ q_call' = [op |-> "clear", id |-> 0, list |-> <<>>, ret |-> None]

\* the methods that take &self, as steps: they answer and cannot assign a field
current_track_call ==
    /\ q_call' = [op |-> "current_track", id |-> 0, list |-> <<>>, ret |-> current_track]
    /\ UNCHANGED <<queue, current_index, original_tracks>>

has_next_call ==
    /\ q_call' = [op |-> "has_next", id |-> 0, list |-> <<>>, ret |-> has_next]
    /\ UNCHANGED <<queue, current_index, original_tracks>>

has_previous_call ==
    /\ q_call' = [op |-> "has_previous", id |-> 0, list |-> <<>>, ret |-> has_previous]
    /\ UNCHANGED <<queue, current_index, original_tracks>>

\* a reset that builds the queue again from the list it was started with
reset_to_beginning_rebuilding ==
    /\ queue' = original_tracks
    /\ current_index' = Some(0)
    /\ q_call' = [op |-> "reset_to_beginning", id |-> 0, list |-> <<>>, ret |-> None]
    /\ UNCHANGED original_tracks

\* reset_to_beginning: the cursor goes to index 0, the queue is not touched
reset_to_beginning ==
    /\ current_index' = Some(0)
    /\ q_call' = [op |-> "reset_to_beginning", id |-> 0, list |-> <<>>, ret |-> None]
    /\ UNCHANGED <<queue, original_tracks>>


(***************************************************************************)
(* soundcloud/auth.rs: the token lifecycle.                                *)
(*                                                                         *)
(* Access tokens and refresh tokens are numbered in the order in which the *)
(* authorization server issues them.  Texts (error messages) are sequences *)
(* of fragments: format!("prefix {}", e) is <<"prefix ">> \o e, and        *)
(* s.contains(w) holds when w is one of the fragments of s.                *)
(***************************************************************************)
MaxHandles == 2

MaxRefreshes == 2

MaxTime == 1

\* lifetime, in clock ticks, of an access token on the server
TokenLifetime == 1

Handles == 1..MaxHandles

VARIABLES
    cells,      \* the Arc<Mutex<AccessToken>> cells, one per TokenManager::new
    mgr,        \* the TokenManager values: which cell they point to, refresh_token
    disk,       \* the file oauth_token.json: "absent", "corrupt" or a StoredToken
    pc,         \* where each TokenManager's get_fresh_token() call stands
    call,       \* the locals of that call, and its result
    valid_rt,   \* server: the refresh tokens it accepts
    issued,     \* server: number of successful exchanges so far
    at_expiry,  \* server: at_expiry[a] is the time at which access token a expires
    now         \* SystemTime::now(), in ticks

tvars == <<cells, mgr, disk, pc, call, valid_rt, issued, at_expiry, now>>

\* managers/audio.rs and main.rs: the playback state.  MyApp keeps the same fields
\* as AudioManager and repeats its code inline.
VARIABLES
    sink,                   \* the rodio Sink: empty, paused, position, length of its source
    track_duration,         \* Duration, in units of 500 ms
    track_position,         \* Duration, in units of 500 ms
    progress_bar_value,     \* f32
    stream_loading,         \* bool
    current_track_data,     \* Option<Vec<u8>>
    a_call                  \* the last operation on the playback state, its inputs and result

avars == <<sink, track_duration, track_position, progress_bar_value, stream_loading,
           current_track_data, a_call>>

\* main.rs: the rest of MyApp and of the iced runtime around it
VARIABLES
    pending_stream_download,    \* bool
    token_manager,              \* Option<TokenManager>: TRUE when Some
    downloads,                  \* download tasks started whose result is not yet handled
    inbox,                      \* messages of Task::done not yet delivered to update
    media_event_receiver        \* the mpsc channel of OS media-control events

pvars == <<pending_stream_download, token_manager, downloads, inbox, media_event_receiver>>

\* TokenStorage and the *_with_refresh helpers, called on their own
VARIABLES
    s_call,     \* the last call of TokenStorage: its name, arguments and result
    h_call      \* the last call of a refresh-aware helper: its arguments and result

cvars == <<s_call, h_call>>

\* main.rs: the tracks that the download tasks, the sink and the title belong to, and
\* the media-control events on their way from the OS to their handler
VARIABLES
    inflight,   \* the track (id) each download task holds in track_clone, oldest first
    loaded_track, \* the track whose bytes QueueStreamDownloaded brought last, 0: none
    shown,      \* the track whose title is in MyApp.title, 0: "Nothing"
    outcome,    \* the result a download task has delivered last
    intents,    \* the events the OS has sent, in order
    handled     \* the events whose MediaControlEvent message has been handled, in order

hvars == <<inflight, loaded_track, shown, outcome, intents, handled>>

vars == <<queue, current_index, original_tracks, q_call,
          cells, mgr, disk, pc, call, valid_rt, issued, at_expiry, now,
          sink, track_duration, track_position, progress_bar_value, stream_loading,
          current_track_data, a_call,
          pending_stream_download, token_manager, downloads, inbox, media_event_receiver,
          s_call, h_call,
          inflight, loaded_track, shown, outcome, intents, handled>>

(***************************************************************************)
(* The file oauth_token.json.  A JSON text is the sequence of its members, *)
(* each a pair of a key and a value.                                       *)
(***************************************************************************)
JString(x) == [t |-> "string", v |-> x]

JNumber(n) == [t |-> "number", v |-> n]

JNull == [t |-> "null", v |-> 0]

\* how serde writes an Option whose content is already written: the content, or null
JOption(o) == IF IsSome(o) THEN Unwrap(o) ELSE JNull

\* a writer that leaves created_at out of the text
to_string_pretty_without_created_at(stored) ==
    << <<"access_token", JString(stored.access_token)>>,
       <<"refresh_token", JOption([i \in DOMAIN stored.refresh_token |-> JString(stored.refresh_token[i])])>>,
       <<"expires_at", JOption([i \in DOMAIN stored.expires_at |-> JNumber(stored.expires_at[i])])>>,
       <<"token_type", JString(stored.token_type)>> >>

\* serde_json::to_string_pretty(&stored_token): the fields in the order of the struct
to_string_pretty(stored) ==
    << <<"access_token", JString(stored.access_token)>>,
       <<"refresh_token", JOption([i \in DOMAIN stored.refresh_token |-> JString(stored.refresh_token[i])])>>,
       <<"expires_at", JOption([i \in DOMAIN stored.expires_at |-> JNumber(stored.expires_at[i])])>>,
       <<"token_type", JString(stored.token_type)>>,
       <<"created_at", JNumber(stored.created_at)>> >>

\* the value of the member named key, None when the text has no such member
member(content, key) ==
    LET hits == {i \in 1..Len(content) : content[i][1] = key}
    IN  IF hits = {} THEN None ELSE Some(content[CHOOSE i \in hits : TRUE][2])

\* fn default_created_at: the time of the parse
default_created_at(time) == time

\* serde_json::from_str::<StoredToken>(&content), at the given time: a String field
\* must be there and be a string, an Option field may be missing or null, created_at
\* has a default
from_str(content, time) ==
    LET access_token  == member(content, "access_token")
        refresh_token == member(content, "refresh_token")
        expires_at    == member(content, "expires_at")
        token_type    == member(content, "token_type")
        created_at    == member(content, "created_at")
        string(m)     == IsSome(m) /\ Unwrap(m).t = "string"
        number(m)     == IsSome(m) /\ Unwrap(m).t = "number"
        absent(m)     == m = None \/ Unwrap(m).t = "null"
        ok == /\ string(access_token)
              /\ string(refresh_token) \/ absent(refresh_token)
              /\ number(expires_at) \/ absent(expires_at)
              /\ string(token_type)
              /\ number(created_at) \/ created_at = None
    IN  IF ok
        THEN [ok |-> TRUE,
              value |-> [access_token  |-> Unwrap(access_token).v,
                         refresh_token |-> IF absent(refresh_token) THEN None
                                           ELSE Some(Unwrap(refresh_token).v),
                         expires_at    |-> IF absent(expires_at) THEN None
                                           ELSE Some(Unwrap(expires_at).v),
                         token_type    |-> Unwrap(token_type).v,
                         created_at    |-> IF created_at = None
                                           THEN default_created_at(time)
                                           ELSE Unwrap(created_at).v]]
        ELSE [ok |-> FALSE, value |-> None]

Absent == <<"absent">>

\* a file whose text is not the JSON of a StoredToken
Corrupt == <<"corrupt">>

\* a file whose bytes are not UTF-8 text
Unreadable == <<"unreadable">>

\* the file as save_token writes it
Stored(t) == <<"stored", to_string_pretty(t)>>

IsStored(d) == d[1] = "stored"

\* the token is expired on the server
Expired(a) == now >= at_expiry[a]

(***************************************************************************)
(* AuthError and its Display                                               *)
(***************************************************************************)
OAuth(msg) == [kind |-> "OAuth", msg |-> msg]

Io == [kind |-> "Io", msg |-> <<"write failed">>]

\* impl Display for AuthError
Display(e) ==
    IF e.kind = "Io" THEN <<"IO error: ">> \o e.msg
    ELSE IF e.kind = "Json" THEN <<"JSON error: ">> \o e.msg
    ELSE IF e.kind = "OAuth" THEN <<"OAuth error: ">> \o e.msg
    ELSE <<"Error: ">> \o e.msg

contains(text, w) == \E i \in 1..Len(text) : text[i] = w

Ok(a) == [ok |-> TRUE, token |-> a, err |-> OAuth(<<>>)]

Err(e) == [ok |-> FALSE, token |-> 0, err |-> e]

\* what the oauth2 client reports when the exchange fails
InvalidGrantText == <<"Server returned error response: ", "invalid_grant">>

OtherErrorTexts ==
    { <<"Server returned error response: ", "invalid_client">>,
      <<"Server returned error response: ", "unauthorized_client">>,
      <<"Server returned error response: ", "invalid_client", "invalid_grant">>,
      <<"Request failed">> }

(***************************************************************************)
(* StoredToken and TokenStorage                                            *)
(***************************************************************************)
\* StoredToken::from_token_response
from_token_response(token) ==
    [access_token  |-> token.access_token,
     refresh_token |-> token.refresh_token,
     expires_at    |-> IF IsSome(token.expires_in)
                       THEN Some(now + Unwrap(token.expires_in)) ELSE None,
     token_type    |-> "Bearer",
     created_at    |-> now]

\* StoredToken::is_expired
is_expired(stored) ==
    IF IsSome(stored.expires_at) THEN now >= Unwrap(stored.expires_at) ELSE FALSE

to_refresh_token(stored) == stored.refresh_token

\* TokenStorage::clear_token; io_ok: the file system call succeeds
clear_token(d, io_ok) ==
    IF d = Absent THEN [res |-> "Ok", disk |-> d]
    ELSE IF io_ok THEN [res |-> "Ok", disk |-> Absent]
    ELSE [res |-> "Err", disk |-> d]

\* TokenStorage::load_token: [res, value, disk].  fs::read_to_string fails when the
\* file system does (io_ok FALSE) and when the bytes of the file are not UTF-8
load_token(d, io_ok) ==
    IF d = Absent THEN [res |-> "Ok", value |-> None, disk |-> d]
    ELSE IF ~io_ok \/ d = Unreadable THEN [res |-> "Err", value |-> None, disk |-> d]
    ELSE LET parsed == IF IsStored(d) THEN from_str(d[2], now)
                       ELSE [ok |-> FALSE, value |-> None]
         IN  IF parsed.ok
             THEN [res |-> "Ok", value |-> Some(parsed.value), disk |-> d]
             ELSE [res |-> "Ok", value |-> None, disk |-> clear_token(d, TRUE).disk]

\* TokenStorage::save_token
save_token(d, token, io_ok) ==
    IF io_ok THEN [res |-> "Ok", disk |-> Stored(from_token_response(token))]
    ELSE [res |-> "Err", disk |-> d]

\* the credential a load of the file yields: none for a missing or unparsable file
Credential(d) ==
    IF IsStored(d) /\ from_str(d[2], now).ok THEN Some(from_str(d[2], now).value) ELSE None

(***************************************************************************)
(* refresh_access_token: classification of the failure                     *)
(***************************************************************************)
\* a classification that does not know invalid_grant
refresh_error_unclassified(error_string) ==
    IF contains(error_string, "invalid_client")
    THEN OAuth(<<"Invalid client credentials. Check CLIENT_ID and CLIENT_SECRET.">>)
    ELSE IF contains(error_string, "unauthorized_client")
    THEN OAuth(<<"Client not authorized to refresh tokens.">>)
    ELSE OAuth(<<"OAuth refresh failed: ">> \o error_string)

refresh_error(error_string) ==
    IF contains(error_string, "invalid_grant") THEN OAuth(<<"invalid_grant">>)
    ELSE IF contains(error_string, "invalid_client")
    THEN OAuth(<<"Invalid client credentials. Check CLIENT_ID and CLIENT_SECRET.">>)
    ELSE IF contains(error_string, "unauthorized_client")
    THEN OAuth(<<"Client not authorized to refresh tokens.">>)
    ELSE OAuth(<<"OAuth refresh failed: ">> \o error_string)

\* refresh_if_needed, Err arm: the error is wrapped
runtime_error(e) == OAuth(<<"Failed to refresh token during runtime: ">> \o Display(e))

(***************************************************************************)
(* TokenManager                                                            *)
(***************************************************************************)
NoCall == [refresh_token |-> None, resp |-> None, result |-> None, stale |-> None]

\* the call is over: its locals are dropped, its result is with the caller
Returned(c, result) ==
    [refresh_token |-> None, resp |-> None, result |-> Some(result), stale |-> c.stale]

\* TokenManager::get_access_token
get_access_token(h) == cells[mgr[h].cell]

\* authenticate(): the credential is in the file, the manager holds its tokens
TokenInit ==
    /\ cells = [c \in Handles |-> IF c = 1 THEN 1 ELSE 0]
    /\ mgr = [h \in Handles |->
                IF h = 1 THEN [alive |-> TRUE, cell |-> 1, refresh_token |-> Some(1)]
                ELSE [alive |-> FALSE, cell |-> 0, refresh_token |-> None]]
    /\ disk = Stored([access_token |-> 1, refresh_token |-> Some(1),
                      expires_at |-> Some(TokenLifetime), token_type |-> "Bearer",
                      created_at |-> 0])
    /\ pc = [h \in Handles |-> "idle"]
    /\ call = [h \in Handles |-> NoCall]
    /\ valid_rt = {1}
    /\ issued = 0
    /\ at_expiry = <<TokenLifetime>>
    /\ now = 0

\* a clone that copies the access token into a cell of its own
clone_own_cell(h, h2) ==
    /\ mgr[h].alive /\ ~mgr[h2].alive
    /\ pc[h] \in {"idle", "done"}
    /\ cells' = [cells EXCEPT ![h2] = cells[mgr[h].cell]]
    /\ mgr' = [mgr EXCEPT ![h2] = [alive |-> TRUE, cell |-> h2,
                                   refresh_token |-> mgr[h].refresh_token]]
    /\ UNCHANGED <<disk, pc, call, valid_rt, issued, at_expiry, now>>

\* impl Clone for TokenManager
clone(h, h2) ==
    /\ mgr[h].alive /\ ~mgr[h2].alive
    /\ pc[h] \in {"idle", "done"}
    /\ mgr' = [mgr EXCEPT ![h2] = [alive |-> TRUE, cell |-> mgr[h].cell,
                                   refresh_token |-> mgr[h].refresh_token]]
    /\ UNCHANGED <<cells, disk, pc, call, valid_rt, issued, at_expiry, now>>

\* refresh_if_needed, lines 197-201: the refresh token is taken from the file,
\* from self.refresh_token when the file yields nothing
refresh_load(h, io_ok) ==
    LET loaded == load_token(disk, io_ok)
        refresh_token == IF loaded.res = "Ok" /\ IsSome(loaded.value)
                         THEN to_refresh_token(Unwrap(loaded.value))
                         ELSE mgr[h].refresh_token
    IN  /\ mgr[h].alive
        /\ pc[h] \in {"idle", "done"}
        /\ disk' = loaded.disk
        /\ call' = [call EXCEPT ![h] =
                      [refresh_token |-> refresh_token, resp |-> None, result |-> None,
                       \* the access token of the cell, when it is expired at the call
                       stale |-> IF Expired(get_access_token(h))
                                 THEN Some(get_access_token(h)) ELSE None]]
        \* with a refresh token the request leaves for the authorization server;
        \* without one refresh_if_needed returns Ok(()) at once
        /\ pc' = [pc EXCEPT ![h] = IF IsSome(refresh_token) THEN "inflight" ELSE "refreshed"]
        /\ UNCHANGED <<cells, mgr, valid_rt, issued, at_expiry, now>>

\* the server accepts the refresh token and answers with a new access token;
\* rotate: it also replaces the refresh token
exchange_ok(h, rotate, expires_in) ==
    LET rt  == Unwrap(call[h].refresh_token)
        new == issued + 2
        token == [access_token |-> new,
                  refresh_token |-> IF rotate THEN Some(new) ELSE None,
                  expires_in |-> expires_in]
    IN  /\ pc[h] = "inflight"
        /\ rt \in valid_rt
        /\ issued < MaxRefreshes
        /\ issued' = issued + 1
        /\ valid_rt' = IF rotate THEN (valid_rt \ {rt}) \cup {new} ELSE valid_rt
        /\ at_expiry' = Append(at_expiry, now + TokenLifetime)
        /\ call' = [call EXCEPT ![h].resp = Some(token)]
        /\ pc' = [pc EXCEPT ![h] = "exchanged"]
        /\ UNCHANGED <<cells, mgr, disk, now>>

\* a failure path that also removes the stored credential
exchange_err_clearing(h, error_string) ==
    /\ pc[h] = "inflight"
    /\ error_string = InvalidGrantText <=> Unwrap(call[h].refresh_token) \notin valid_rt
    /\ call' = [call EXCEPT ![h] =
                  Returned(@, Err(runtime_error(refresh_error(error_string))))]
    /\ pc' = [pc EXCEPT ![h] = "done"]
    /\ disk' = Absent
    /\ UNCHANGED <<cells, mgr, valid_rt, issued, at_expiry, now>>

\* the exchange fails: refresh_access_token classifies, refresh_if_needed wraps
exchange_err(h, error_string) ==
    /\ pc[h] = "inflight"
    /\ error_string = InvalidGrantText <=> Unwrap(call[h].refresh_token) \notin valid_rt
    /\ call' = [call EXCEPT ![h] =
                  Returned(@, Err(runtime_error(refresh_error(error_string))))]
    /\ pc' = [pc EXCEPT ![h] = "done"]
    /\ UNCHANGED <<cells, mgr, disk, valid_rt, issued, at_expiry, now>>

\* refresh_if_needed, line 208: self.storage.save_token(new_token.clone())?
refresh_save(h, io_ok) ==
    LET saved == save_token(disk, Unwrap(call[h].resp), io_ok)
    IN  /\ pc[h] = "exchanged"
        /\ disk' = saved.disk
        /\ IF saved.res = "Ok"
           THEN /\ pc' = [pc EXCEPT ![h] = "saved"]
                /\ UNCHANGED call
           ELSE /\ pc' = [pc EXCEPT ![h] = "done"]
                /\ call' = [call EXCEPT ![h] = Returned(@, Err(Io))]
        /\ UNCHANGED <<cells, mgr, valid_rt, issued, at_expiry, now>>

\* a swap that takes the refresh token of the response even when it has none
refresh_swap_overwriting(h) ==
    LET new_token == Unwrap(call[h].resp)
    IN  /\ pc[h] = "saved"
        /\ cells' = [cells EXCEPT ![mgr[h].cell] = new_token.access_token]
        /\ mgr' = [mgr EXCEPT ![h].refresh_token = new_token.refresh_token]
        /\ pc' = [pc EXCEPT ![h] = "refreshed"]
        /\ UNCHANGED <<disk, call, valid_rt, issued, at_expiry, now>>

\* refresh_if_needed, lines 211-217, under the lock of the cell
refresh_swap(h) ==
    LET new_token == Unwrap(call[h].resp)
    IN  /\ pc[h] = "saved"
        /\ cells' = [cells EXCEPT ![mgr[h].cell] = new_token.access_token]
        /\ mgr' = [mgr EXCEPT ![h].refresh_token =
                     IF IsSome(new_token.refresh_token)
                     THEN new_token.refresh_token ELSE @]
        /\ pc' = [pc EXCEPT ![h] = "refreshed"]
        /\ UNCHANGED <<disk, call, valid_rt, issued, at_expiry, now>>

\* get_fresh_token, line 190: Ok(_) => Ok(self.get_access_token())
get_fresh_token_return(h) ==
    /\ pc[h] = "refreshed"
    /\ call' = [call EXCEPT ![h] = Returned(@, Ok(get_access_token(h)))]
    /\ pc' = [pc EXCEPT ![h] = "done"]
    /\ UNCHANGED <<cells, mgr, disk, valid_rt, issued, at_expiry, now>>

(***************************************************************************)
(* TokenManager::handle_auth_error, the path taken after an API call has   *)
(* failed with an authorization error.                                     *)
(***************************************************************************)
ReauthenticateError == OAuth(<<"Token refresh failed, need to re-authenticate">>)

AuthRefreshError == OAuth(<<"Failed to refresh token after auth error">>)

\* a start that takes the refresh token from the file, as refresh_if_needed does
handle_auth_error_begin_from_disk(h) ==
    LET loaded == load_token(disk, TRUE)
        refresh_token == IF IsSome(loaded.value)
                         THEN to_refresh_token(Unwrap(loaded.value))
                         ELSE mgr[h].refresh_token
    IN  /\ mgr[h].alive
        /\ pc[h] \in {"idle", "done"}
        /\ disk' = loaded.disk
        /\ IF IsSome(refresh_token)
           THEN /\ call' = [call EXCEPT ![h] =
                              [refresh_token |-> refresh_token, resp |-> None,
                               result |-> None, stale |-> None]]
                /\ pc' = [pc EXCEPT ![h] = "auth_inflight"]
           ELSE /\ call' = [call EXCEPT ![h] =
                              Returned(NoCall, Err(ReauthenticateError))]
                /\ pc' = [pc EXCEPT ![h] = "done"]
        /\ UNCHANGED <<cells, mgr, valid_rt, issued, at_expiry, now>>

\* handle_auth_error, line 233: the refresh token is self.refresh_token; without
\* one the method returns the error of lines 257-259
handle_auth_error_begin(h) ==
    LET refresh_token == mgr[h].refresh_token
    IN  /\ mgr[h].alive
        /\ pc[h] \in {"idle", "done"}
        /\ IF IsSome(refresh_token)
           THEN /\ call' = [call EXCEPT ![h] =
                              [refresh_token |-> refresh_token, resp |-> None,
                               result |-> None, stale |-> None]]
                /\ pc' = [pc EXCEPT ![h] = "auth_inflight"]
           ELSE /\ call' = [call EXCEPT ![h] =
                              Returned(NoCall, Err(ReauthenticateError))]
                /\ pc' = [pc EXCEPT ![h] = "done"]
        /\ UNCHANGED <<cells, mgr, disk, valid_rt, issued, at_expiry, now>>

\* line 234, refresh_access_token answers Ok: the server has accepted the token
auth_exchange_ok(h, rotate, expires_in) ==
    LET rt  == Unwrap(call[h].refresh_token)
        new == issued + 2
        token == [access_token |-> new,
                  refresh_token |-> IF rotate THEN Some(new) ELSE None,
                  expires_in |-> expires_in]
    IN  /\ pc[h] = "auth_inflight"
        /\ rt \in valid_rt
        /\ issued < MaxRefreshes
        /\ issued' = issued + 1
        /\ valid_rt' = IF rotate THEN (valid_rt \ {rt}) \cup {new} ELSE valid_rt
        /\ at_expiry' = Append(at_expiry, now + TokenLifetime)
        /\ call' = [call EXCEPT ![h].resp = Some(token)]
        /\ pc' = [pc EXCEPT ![h] = "auth_exchanged"]
        /\ UNCHANGED <<cells, mgr, disk, now>>

\* lines 248-252: the exchange has failed, whatever its error
auth_exchange_err(h, error_string) ==
    /\ pc[h] = "auth_inflight"
    /\ error_string = InvalidGrantText <=> Unwrap(call[h].refresh_token) \notin valid_rt
    /\ call' = [call EXCEPT ![h] = Returned(@, Err(AuthRefreshError))]
    /\ pc' = [pc EXCEPT ![h] = "done"]
    /\ UNCHANGED <<cells, mgr, disk, valid_rt, issued, at_expiry, now>>

\* line 236: self.storage.save_token(new_token.clone())?
auth_save(h, io_ok) ==
    LET saved == save_token(disk, Unwrap(call[h].resp), io_ok)
    IN  /\ pc[h] = "auth_exchanged"
        /\ disk' = saved.disk
        /\ IF saved.res = "Ok"
           THEN /\ pc' = [pc EXCEPT ![h] = "auth_saved"]
                /\ UNCHANGED call
           ELSE /\ pc' = [pc EXCEPT ![h] = "done"]
                /\ call' = [call EXCEPT ![h] = Returned(@, Err(Io))]
        /\ UNCHANGED <<cells, mgr, valid_rt, issued, at_expiry, now>>

\* lines 239-247: the cell and self.refresh_token are updated, Ok(()) is returned
auth_swap(h) ==
    LET new_token == Unwrap(call[h].resp)
    IN  /\ pc[h] = "auth_saved"
        /\ cells' = [cells EXCEPT ![mgr[h].cell] = new_token.access_token]
        /\ mgr' = [mgr EXCEPT ![h].refresh_token =
                     IF IsSome(new_token.refresh_token)
                     THEN new_token.refresh_token ELSE @]
        /\ call' = [call EXCEPT ![h] = Returned(@, Ok(0))]
        /\ pc' = [pc EXCEPT ![h] = "done"]
        /\ UNCHANGED <<disk, valid_rt, issued, at_expiry, now>>

\* the file is damaged from outside the program
CorruptFile ==
    /\ IsStored(disk)
    /\ disk' = Corrupt
    /\ UNCHANGED <<cells, mgr, pc, call, valid_rt, issued, at_expiry, now>>

Tick ==
    /\ now < MaxTime
    /\ now' = now + 1
    /\ UNCHANGED <<cells, mgr, disk, pc, call, valid_rt, issued, at_expiry>>

(***************************************************************************)
(* TokenStorage called on its own: authenticate() and clear_stored_token() *)
(* save, load and clear the file outside any refresh.                      *)
(***************************************************************************)
\* the responses of the authorization server that are saved
TokenResponses ==
    [access_token : {1, 2}, refresh_token : {None, Some(1)},
     expires_in : {None, Some(0), Some(TokenLifetime)}]

StorageInit ==
    s_call = [op |-> "new", io_ok |-> TRUE, res |-> "Ok", stored |-> None,
              value |-> None, expired |-> FALSE]

\* storage.save_token(token), as authenticate() calls it; stored is the StoredToken
\* that save_token builds and writes
storage_save(token, io_ok) ==
    LET saved == save_token(disk, token, io_ok)
    IN  /\ disk' = saved.disk
        /\ s_call' = [op |-> "save_token", io_ok |-> io_ok, res |-> saved.res,
                      stored |-> Some(from_token_response(token)),
                      value |-> None, expired |-> FALSE]
        /\ UNCHANGED <<cells, mgr, pc, call, valid_rt, issued, at_expiry, now, h_call>>

\* storage.load_token() followed by stored_token.is_expired(), as authenticate()
\* calls them
storage_load(io_ok) ==
    LET loaded == load_token(disk, io_ok)
    IN  /\ disk' = loaded.disk
        /\ s_call' = [op |-> "load_token", io_ok |-> io_ok, res |-> loaded.res,
                      stored |-> None, value |-> loaded.value,
                      expired |-> IF IsSome(loaded.value)
                                  THEN is_expired(Unwrap(loaded.value)) ELSE FALSE]
        /\ UNCHANGED <<cells, mgr, pc, call, valid_rt, issued, at_expiry, now, h_call>>

\* clear_stored_token()
storage_clear(io_ok) ==
    LET cleared == clear_token(disk, io_ok)
    IN  /\ disk' = cleared.disk
        /\ s_call' = [op |-> "clear_token", io_ok |-> io_ok, res |-> cleared.res,
                      stored |-> None, value |-> None, expired |-> FALSE]
        /\ UNCHANGED <<cells, mgr, pc, call, valid_rt, issued, at_expiry, now, h_call>>

\* the file is damaged from outside the program: its text is no longer the JSON of
\* a StoredToken, or its bytes are no longer text
storage_damaged(d) ==
    /\ IsStored(disk)
    /\ disk' = d
    /\ s_call' = [op |-> "damaged", io_ok |-> TRUE, res |-> "Ok", stored |-> None,
                  value |-> None, expired |-> FALSE]
    /\ UNCHANGED <<cells, mgr, pc, call, valid_rt, issued, at_expiry, now, h_call>>

(***************************************************************************)
(* soundcloud/api_helpers.rs and managers/stream.rs: the helpers that take *)
(* a TokenManager, refresh, call the API and give the manager back.  The   *)
(* data of a success is left out.  What get_fresh_token and the API answer *)
(* are inputs of the helper.                                               *)
(***************************************************************************)
Other(msg) == [kind |-> "Other", msg |-> msg]

\* the TokenManager values handed to a helper
Managers == [alive : {TRUE}, cell : {1}, refresh_token : {None, Some(1)}]

\* token_manager.get_fresh_token().await: the results it can give, each with the
\* manager as the call leaves it (a successful refresh may replace refresh_token)
get_fresh_token(m) ==
    {[result |-> Ok(a), token_manager |-> [m EXCEPT !.refresh_token = rt]] :
        a \in {1, 2}, rt \in {m.refresh_token, Some(2)}}
    \cup
    {[result |-> Err(e), token_manager |-> m] :
        e \in {runtime_error(refresh_error(InvalidGrantText)), Io}}

\* the answers of api::*: Ok, or the error whose Display is text
ApiOk == [ok |-> TRUE, text |-> <<>>]

ApiErr(text) == [ok |-> FALSE, text |-> text]

\* format!("HTTP {} error: {}", status, error_text), and a failure of the request
ApiAnswers ==
    { ApiOk,
      ApiErr(<<"HTTP ", "401", " ", "Unauthorized", " error: ">>),
      ApiErr(<<"HTTP ", "403", " ", "Forbidden", " error: ">>),
      ApiErr(<<"HTTP ", "429", " ", "Too Many Requests", " error: ">>),
      ApiErr(<<"HTTP ", "500", " ", "Internal Server Error", " error: ">>),
      ApiErr(<<"error sending request">>) }

\* Ok((data, token_manager)) and Err((error, token_manager))
HelperOk(m) == [ok |-> TRUE, err |-> None, token_manager |-> Some(m)]

HelperErr(e, m) == [ok |-> FALSE, err |-> Some(e), token_manager |-> Some(m)]

is_auth_failure(error_msg) ==
    \/ contains(error_msg, "401")
    \/ contains(error_msg, "403")
    \/ contains(error_msg, "Unauthorized")

is_rate_limit(error_msg) == contains(error_msg, "429") \/ contains(error_msg, "Rate")

load_feed_with_refresh(fresh, api) ==
    LET m == fresh.token_manager
    IN  IF fresh.result.ok
        THEN IF api.ok THEN HelperOk(m)
             ELSE IF is_auth_failure(api.text)
             THEN HelperErr(OAuth(<<"Authentication failed while loading activity feed">>), m)
             ELSE HelperErr(Other(<<"Failed to load activity feed: ">> \o api.text), m)
        ELSE HelperErr(fresh.result.err, m)

load_favourites_with_refresh(fresh, api) ==
    LET m == fresh.token_manager
    IN  IF fresh.result.ok
        THEN IF api.ok THEN HelperOk(m)
             ELSE HelperErr(Other(<<"Failed to load liked tracks">>), m)
        ELSE HelperErr(fresh.result.err, m)

search_with_refresh(fresh, api) ==
    LET m == fresh.token_manager
    IN  IF fresh.result.ok
        THEN IF api.ok THEN HelperOk(m)
             ELSE IF is_auth_failure(api.text)
             THEN HelperErr(OAuth(<<"Authentication failed while searching">>), m)
             ELSE IF is_rate_limit(api.text)
             THEN HelperErr(Other(<<"Rate limited while searching: ">> \o api.text), m)
             ELSE HelperErr(Other(<<"Failed to search: ">> \o api.text), m)
        ELSE HelperErr(fresh.result.err, m)

load_user_profile_with_refresh(fresh, api) ==
    LET m == fresh.token_manager
    IN  IF fresh.result.ok
        THEN IF api.ok THEN HelperOk(m)
             ELSE IF is_auth_failure(api.text)
             THEN HelperErr(OAuth(<<"Authentication failed while loading user profile">>), m)
             ELSE IF is_rate_limit(api.text)
             THEN HelperErr(Other(<<"Rate limited while loading user profile: ">>
                                  \o api.text), m)
             ELSE HelperErr(Other(<<"Failed to load user profile: ">> \o api.text), m)
        ELSE HelperErr(fresh.result.err, m)

like_track_with_refresh(fresh, api) ==
    LET m == fresh.token_manager
    IN  IF fresh.result.ok
        THEN IF api.ok THEN HelperOk(m)
             ELSE HelperErr(Other(<<"Failed to like track">>), m)
        ELSE HelperErr(fresh.result.err, m)

get_track_data_with_refresh(fresh, api) ==
    LET m == fresh.token_manager
    IN  IF fresh.result.ok
        THEN IF api.ok THEN HelperOk(m)
             ELSE HelperErr(Other(<<"Failed to get track data">>), m)
        ELSE HelperErr(fresh.result.err, m)

\* download_track_stream giving up the manager when the track has no stream URL
download_track_stream_dropping_manager(m, stream_url, fresh, api) ==
    IF stream_url = None
    THEN [ok |-> FALSE, err |-> Some(<<"Track has no stream URL">>),
          token_manager |-> None]
    ELSE LET r == get_track_data_with_refresh(fresh, api)
         IN  IF r.ok THEN r ELSE [r EXCEPT !.err = Some(Display(Unwrap(r.err)))]

\* managers/stream.rs; the error of the helper is turned into its text
download_track_stream(m, stream_url, fresh, api) ==
    IF stream_url = None
    THEN HelperErr(<<"Track has no stream URL">>, m)
    ELSE LET r == get_track_data_with_refresh(fresh, api)
         IN  IF r.ok THEN r ELSE [r EXCEPT !.err = Some(Display(Unwrap(r.err)))]

HelperInit ==
    h_call = [op |-> "new", given |-> None, stream_url |-> None, fresh |-> None,
              api |-> ApiOk, result |-> HelperOk([alive |-> TRUE, cell |-> 1,
                                                  refresh_token |-> None])]

\* a task calls the helper and receives its result
Helper(op, m, stream_url, fresh, api, result) ==
    /\ h_call' = [op |-> op, given |-> Some(m), stream_url |-> stream_url,
                  fresh |-> fresh, api |-> api, result |-> result]
    /\ UNCHANGED <<tvars, s_call>>

(***************************************************************************)
(* managers/audio.rs: AudioManager over a rodio Sink.                      *)
(*                                                                         *)
(* Durations are counted in units of 500 ms.  A track's bytes are known by *)
(* whether Decoder::new accepts them and by the length of the audio they   *)
(* hold.  Whether a try_seek succeeds is decided by the decoder: it is an  *)
(* input of the operation that calls it.                                   *)
(***************************************************************************)
MaxPos == 3

\* Duration::from_millis(500)
EndTolerance == 1

Positions == 0..MaxPos

Percents == {0, 50, 100}

Undecodable == [decodable |-> FALSE, len |-> 0]

TrackData == {Undecodable} \cup [decodable : {TRUE}, len : 1..MaxPos]

saturating_sub(a, b) == IF a > b THEN a - b ELSE 0

\* f32 values of the progress bar
F32(x) == [kind |-> "number", value |-> x]

NaN == [kind |-> "NaN", value |-> 0]

Infinity == [kind |-> "inf", value |-> 0]

\* (position.as_secs_f32() / duration.as_secs_f32()) * 100.0, to a whole percent
Ratio(new_position, duration) ==
    IF duration = 0
    THEN IF new_position = 0 THEN NaN ELSE Infinity
    ELSE F32((new_position * 100) \div duration)

\* Duration::mul_f32(percent / 100.0), to a whole unit
mul_f32(duration, percent) == (duration * percent) \div 100

\* rodio: Sink::connect_new gives an empty sink that is not paused
connect_new == [empty |-> TRUE, paused |-> FALSE, pos |-> 0, len |-> 0]

\* rodio: Sink::clear removes the sources and pauses the sink
sink_clear(s) == [empty |-> TRUE, paused |-> TRUE, pos |-> 0, len |-> 0]

\* rodio: Sink::append, here always on a sink just cleared
sink_append(s, source) == [s EXCEPT !.empty = FALSE, !.pos = 0, !.len = source.len]

sink_play(s) == [s EXCEPT !.paused = FALSE]

sink_pause(s) == [s EXCEPT !.paused = TRUE]

\* rodio: Sink::try_seek; ok is the decoder's answer
try_seek(s, target, ok) == IF ok THEN [s EXCEPT !.pos = target] ELSE s

\* souvlaki::MediaPlayback, as handed to media_controls.set_playback
Playing == "Playing"

Paused == "Paused"

Stopped == "Stopped"

\* the fields of the AudioManager, with the outcome of the method (ret: the bool or
\* Result returned; for a method that returns nothing, FALSE when its seek has
\* failed), whether the method has replaced self.sink by a new Sink (rebuilt) and
\* the state it has handed to media_controls.set_playback (published)
Self ==
    [sink |-> sink, track_position |-> track_position,
     progress_bar_value |-> progress_bar_value, stream_loading |-> stream_loading,
     current_track_data |-> current_track_data, ret |-> TRUE, rebuilt |-> FALSE,
     published |-> None]

AudioInit ==
    /\ sink = connect_new
    /\ track_duration = 0
    /\ track_position = 0
    /\ progress_bar_value = F32(0)
    /\ stream_loading = FALSE
    /\ current_track_data = None
    /\ a_call = [op |-> "new", arg |-> 0, live_ok |-> FALSE, rebuilt_ok |-> FALSE,
                 ret |-> TRUE, rebuilt |-> FALSE, published |-> None]

\* a load that keeps the bytes retained for an earlier track
load_track_retaining_first(track_data) ==
    LET stored == [Self EXCEPT !.current_track_data =
                                   IF IsSome(@) THEN @ ELSE Some(track_data),
                               !.sink = connect_new,
                               !.rebuilt = TRUE]
    IN  IF track_data.decodable
        THEN [stored EXCEPT !.sink = sink_play(sink_append(sink_clear(@), track_data)),
                            !.stream_loading = FALSE]
        ELSE [stored EXCEPT !.ret = FALSE]

load_track(track_data) ==
    LET stored == [Self EXCEPT !.current_track_data = Some(track_data),
                               !.sink = connect_new,
                               !.rebuilt = TRUE]
    IN  IF track_data.decodable
        THEN [stored EXCEPT !.sink = sink_play(sink_append(sink_clear(@), track_data)),
                            !.stream_loading = FALSE]
        ELSE [stored EXCEPT !.ret = FALSE]

toggle_play_pause ==
    IF ~sink.empty
    THEN IF sink.paused
         THEN [Self EXCEPT !.sink = sink_play(@), !.published = Some(Playing)]
         ELSE [Self EXCEPT !.sink = sink_pause(@), !.published = Some(Paused)]
    ELSE Self

\* play without the test of is_paused
play_unconditional ==
    IF ~sink.empty
    THEN [Self EXCEPT !.sink = sink_play(@), !.published = Some(Playing)]
    ELSE Self

play ==
    IF ~sink.empty /\ sink.paused
    THEN [Self EXCEPT !.sink = sink_play(@), !.published = Some(Playing)]
    ELSE Self

pause ==
    IF ~sink.empty /\ ~sink.paused
    THEN [Self EXCEPT !.sink = sink_pause(@), !.published = Some(Paused)]
    ELSE Self

seek_forward(seek_amount, live_ok) ==
    IF ~sink.empty
    THEN [Self EXCEPT !.sink = try_seek(@, sink.pos + seek_amount, live_ok),
                      !.ret = live_ok]
    ELSE Self

\* the workaround of seek_backward that reports success when the seek on the new
\* sink has failed
recreate_source_reporting_success(new_position, rebuilt_ok) ==
    LET was_paused == sink.paused
        restore(s) == IF was_paused THEN sink_pause(s) ELSE sink_play(s)
        fresh == [Self EXCEPT !.sink = connect_new, !.rebuilt = TRUE]
    IN  IF IsSome(current_track_data)
        THEN IF Unwrap(current_track_data).decodable
             THEN LET source == sink_append(sink_clear(fresh.sink),
                                            Unwrap(current_track_data))
                  IN  IF new_position > 0
                      THEN IF rebuilt_ok
                           THEN [fresh EXCEPT
                                   !.sink = restore(try_seek(source, new_position, TRUE)),
                                   !.track_position = new_position]
                           ELSE [fresh EXCEPT !.sink = source]
                      ELSE [fresh EXCEPT !.sink = restore(source),
                                         !.track_position = 0]
             ELSE [fresh EXCEPT !.ret = FALSE]
        ELSE [Self EXCEPT !.ret = FALSE]

\* seek_backward, the arm taken when the direct seek fails: a new sink is made, the
\* retained bytes are decoded again and the new source is sought forward
recreate_source(new_position, rebuilt_ok) ==
    LET was_paused == sink.paused
        restore(s) == IF was_paused THEN sink_pause(s) ELSE sink_play(s)
        fresh == [Self EXCEPT !.sink = connect_new, !.rebuilt = TRUE]
    IN  IF IsSome(current_track_data)
        THEN IF Unwrap(current_track_data).decodable
             THEN LET source == sink_append(sink_clear(fresh.sink),
                                            Unwrap(current_track_data))
                  IN  IF new_position > 0
                      THEN IF rebuilt_ok
                           THEN [fresh EXCEPT
                                   !.sink = restore(try_seek(source, new_position, TRUE)),
                                   !.track_position = new_position]
                           ELSE [fresh EXCEPT !.sink = source, !.ret = FALSE]
                      ELSE [fresh EXCEPT !.sink = restore(source),
                                         !.track_position = 0]
             ELSE [fresh EXCEPT !.ret = FALSE]
        ELSE [Self EXCEPT !.ret = FALSE]

seek_backward(seek_amount, live_ok, rebuilt_ok) ==
    IF sink.empty
    THEN [Self EXCEPT !.ret = FALSE]
    ELSE LET cur_pos == sink.pos
             new_position == saturating_sub(cur_pos, seek_amount)
         IN  IF live_ok
             THEN [Self EXCEPT !.sink = try_seek(@, new_position, TRUE),
                               !.track_position = new_position]
             ELSE recreate_source(new_position, rebuilt_ok)

seek_to_position(percent, live_ok, rebuilt_ok) ==
    IF ~sink.empty
    THEN LET new_position == mul_f32(track_duration, percent)
             cur_position == sink.pos
         IN  IF new_position < cur_position
             THEN LET seek_amount == cur_position - new_position
                      back == seek_backward(seek_amount, live_ok, rebuilt_ok)
                  IN  IF back.ret
                      THEN [back EXCEPT !.progress_bar_value = F32(percent)]
                      ELSE back
             ELSE IF live_ok
                  THEN [Self EXCEPT !.sink = try_seek(@, new_position, TRUE),
                                    !.track_position = new_position,
                                    !.progress_bar_value = F32(percent)]
                  ELSE [Self EXCEPT !.ret = FALSE]
    ELSE Self

update_position ==
    IF ~sink.empty
    THEN LET new_position == sink.pos
         IN  [Self EXCEPT !.track_position = new_position,
                          !.progress_bar_value = Ratio(new_position, track_duration),
                          !.published = Some(IF sink.paused THEN Paused ELSE Playing)]
    ELSE Self

\* has_track_ended without the test of the sink
has_track_ended_any_sink ==
    track_position >= saturating_sub(track_duration, EndTolerance)

has_track_ended ==
    /\ ~sink.empty
    /\ track_position >= saturating_sub(track_duration, EndTolerance)

audio_clear == [Self EXCEPT !.sink = sink_clear(@), !.published = Some(Stopped)]

(***************************************************************************)
(* The operations as steps.  Every step of the AudioManager records        *)
(* itself in a_call.                                                       *)
(***************************************************************************)
SeekAmounts == {1, 2}

\* the decoder's answers: the seek on the live sink, and, when that has failed, the
\* seek on the sink made anew
SeekAnswers == {<<TRUE, FALSE>>, <<FALSE, TRUE>>, <<FALSE, FALSE>>}

Apply(r, op, arg, live_ok, rebuilt_ok) ==
    /\ sink' = r.sink
    /\ track_position' = r.track_position
    /\ progress_bar_value' = r.progress_bar_value
    /\ stream_loading' = r.stream_loading
    /\ current_track_data' = r.current_track_data
    /\ a_call' = [op |-> op, arg |-> arg, live_ok |-> live_ok,
                  rebuilt_ok |-> rebuilt_ok, ret |-> r.ret, rebuilt |-> r.rebuilt,
                  published |-> r.published]

\* the owner of the AudioManager announces the track it is about to load
announce_track(duration) ==
    /\ track_duration' = duration
    /\ Apply([Self EXCEPT !.stream_loading = TRUE], "announce_track", duration,
             FALSE, FALSE)

\* the audio thread plays the source of the sink
playback ==
    /\ ~sink.empty
    /\ ~sink.paused
    /\ sink.pos < sink.len
    /\ Apply([Self EXCEPT !.sink.pos = @ + 1], "playback", 0, FALSE, FALSE)

\* the audio thread reaches the end of the source: the sink is empty again
source_end ==
    /\ ~sink.empty
    /\ ~sink.paused
    /\ sink.pos >= sink.len
    /\ Apply([Self EXCEPT !.sink = [@ EXCEPT !.empty = TRUE, !.pos = 0, !.len = 0]],
             "source_end", 0, FALSE, FALSE)

(***************************************************************************)
(* main.rs: MyApp::update.  The handlers repeat the code of AudioManager   *)
(* on MyApp's own fields; a download is a task whose result comes back as  *)
(* QueueStreamDownloaded or QueueStreamFailed; a message made by           *)
(* Task::done waits in inbox until the runtime delivers it.  Of a track    *)
(* the queue keeps the id: stream_url and duration are inputs of the       *)
(* handler that reads them.                                                *)
(***************************************************************************)
MaxDownloads == 2

MaxInbox == 1

MaxEvents == 1

Message(name) == [msg |-> name, event |-> "none"]

MediaControlEvent(event) == [msg |-> "MediaControlEvent", event |-> event]

\* souvlaki::MediaControlEvent, the events the OS sends here
MediaControlEvents == {"Toggle", "Next"}

\* track.duration of the tracks played, and the bytes their downloads bring
TrackDurations == {MaxPos}

Downloaded == {Undecodable, [decodable |-> TRUE, len |-> MaxPos]}

\* the track lists of a page: every track once
PageTracks == [i \in 1..MaxTrackId |-> [id |-> i]]

StreamUrls == {None, Some("stream_url")}

\* Task::none() where start_track_download is not reached
no_download ==
    UNCHANGED <<sink, track_duration, track_position, progress_bar_value,
                stream_loading, current_track_data, pending_stream_download, downloads>>

start_track_download(stream_url, duration) ==
    IF stream_url = None
    THEN no_download
    ELSE /\ downloads < MaxDownloads
         /\ track_duration' = duration
         /\ stream_loading' = TRUE
         /\ sink' = sink_clear(sink)
         /\ pending_stream_download' = TRUE
         /\ downloads' = downloads + 1
         /\ UNCHANGED <<track_position, progress_bar_value, current_track_data>>

\* Message::StartQueue
start_queue(track_id, tracks, stream_url, duration) ==
    /\ token_manager' = TRUE
    /\ start_queue_from_track(track_id, tracks)
    /\ IF IsSome(current_track_of(queue', current_index'))
       THEN start_track_download(stream_url, duration)
       ELSE no_download
    /\ UNCHANGED a_call
    /\ UNCHANGED <<inbox, media_event_receiver>>

\* Message::QueueStreamDownloaded
queue_stream_downloaded(track_data) ==
    /\ downloads > 0
    /\ downloads' = downloads - 1
    /\ token_manager' = TRUE
    /\ LET loaded == load_track(track_data)
       IN  /\ current_track_data' = loaded.current_track_data
           /\ sink' = loaded.sink
           /\ stream_loading' = loaded.stream_loading
    /\ pending_stream_download' = FALSE
    /\ UNCHANGED a_call
    /\ UNCHANGED <<track_duration, track_position, progress_bar_value, inbox,
                   media_event_receiver, qvars>>

\* QueueStreamFailed skipping to the next track of the queue
queue_stream_failed_skipping ==
    /\ downloads > 0
    /\ downloads' = downloads - 1
    /\ stream_loading' = FALSE
    /\ pending_stream_download' = FALSE
    /\ token_manager' = TRUE
    /\ next_track
    /\ UNCHANGED a_call
    /\ UNCHANGED <<sink, track_duration, track_position, progress_bar_value,
                   current_track_data, inbox, media_event_receiver>>

\* Message::QueueStreamFailed
queue_stream_failed ==
    /\ downloads > 0
    /\ downloads' = downloads - 1
    /\ stream_loading' = FALSE
    /\ pending_stream_download' = FALSE
    /\ token_manager' = TRUE
    /\ UNCHANGED a_call
    /\ UNCHANGED <<sink, track_duration, track_position, progress_bar_value,
                   current_track_data, inbox, media_event_receiver, qvars>>

\* Message::PlayPausePlayback
play_pause_playback ==
    /\ sink' = toggle_play_pause.sink
    /\ UNCHANGED a_call
    /\ UNCHANGED <<track_duration, track_position, progress_bar_value, stream_loading,
                   current_track_data, pvars, qvars>>

\* UiTick taking the event out of the channel without sending its message
ui_tick_discarding ==
    /\ IF media_event_receiver # <<>>
       THEN /\ media_event_receiver' = Tail(media_event_receiver)
            /\ UNCHANGED <<inbox, track_position, progress_bar_value>>
       ELSE /\ UNCHANGED media_event_receiver
            /\ IF ~sink.empty
               THEN LET new_position == sink.pos
                    IN  /\ track_position' = new_position
                        /\ progress_bar_value' = Ratio(new_position, track_duration)
                        /\ IF /\ new_position >=
                                    saturating_sub(track_duration, EndTolerance)
                              /\ ~pending_stream_download
                           THEN inbox' = Append(inbox, Message("TrackEnded"))
                           ELSE UNCHANGED inbox
               ELSE UNCHANGED <<track_position, progress_bar_value, inbox>>
    /\ UNCHANGED a_call
    /\ UNCHANGED <<sink, track_duration, stream_loading, current_track_data,
                   pending_stream_download, token_manager, downloads, qvars>>

\* UiTick testing the end of the track on the position of the previous tick
ui_tick_stale_position ==
    /\ IF media_event_receiver # <<>>
       THEN /\ inbox' = Append(inbox, MediaControlEvent(Head(media_event_receiver)))
            /\ media_event_receiver' = Tail(media_event_receiver)
            /\ UNCHANGED <<track_position, progress_bar_value>>
       ELSE /\ UNCHANGED media_event_receiver
            /\ IF ~sink.empty
               THEN LET new_position == sink.pos
                    IN  /\ track_position' = new_position
                        /\ progress_bar_value' = Ratio(new_position, track_duration)
                        /\ IF /\ track_position >=
                                    saturating_sub(track_duration, EndTolerance)
                              /\ ~pending_stream_download
                           THEN inbox' = Append(inbox, Message("TrackEnded"))
                           ELSE UNCHANGED inbox
               ELSE UNCHANGED <<track_position, progress_bar_value, inbox>>
    /\ UNCHANGED a_call
    /\ UNCHANGED <<sink, track_duration, stream_loading, current_track_data,
                   pending_stream_download, token_manager, downloads, qvars>>

\* Message::UiTick
ui_tick ==
    /\ IF media_event_receiver # <<>>
       THEN /\ inbox' = Append(inbox, MediaControlEvent(Head(media_event_receiver)))
            /\ media_event_receiver' = Tail(media_event_receiver)
            /\ UNCHANGED <<track_position, progress_bar_value>>
       ELSE /\ UNCHANGED media_event_receiver
            /\ IF ~sink.empty
               THEN LET new_position == sink.pos
                    IN  /\ track_position' = new_position
                        /\ progress_bar_value' = Ratio(new_position, track_duration)
                        /\ IF /\ new_position >=
                                    saturating_sub(track_duration, EndTolerance)
                              /\ ~pending_stream_download
                           THEN inbox' = Append(inbox, Message("TrackEnded"))
                           ELSE UNCHANGED inbox
               ELSE UNCHANGED <<track_position, progress_bar_value, inbox>>
    /\ UNCHANGED a_call
    /\ UNCHANGED <<sink, track_duration, stream_loading, current_track_data,
                   pending_stream_download, token_manager, downloads, qvars>>

\* Message::NextTrack, whoever sends it
on_next_track(stream_url, duration) ==
    /\ next_track
    /\ IF IsSome(q_call'.ret)
       THEN IF token_manager
            THEN start_track_download(stream_url, duration)
            ELSE no_download
       ELSE no_download

\* Message::PreviousTrack, whoever sends it
on_previous_track(stream_url, duration) ==
    /\ previous_track
    /\ IF IsSome(q_call'.ret)
       THEN IF token_manager
            THEN start_track_download(stream_url, duration)
            ELSE no_download
       ELSE no_download

\* Message::MediaControlEvent, delivered from the inbox
media_control_event(stream_url, duration) ==
    /\ inbox # <<>>
    /\ Head(inbox).msg = "MediaControlEvent"
    /\ inbox' = Tail(inbox)
    /\ LET event == Head(inbox).event
           sink_only(s) ==
               /\ sink' = s
               /\ UNCHANGED <<track_duration, track_position, progress_bar_value,
                              stream_loading, current_track_data,
                              pending_stream_download, downloads, qvars>>
       IN  CASE event = "Play" -> sink_only(play.sink)
             [] event = "Pause" -> sink_only(pause.sink)
             [] event = "Toggle" -> sink_only(toggle_play_pause.sink)
             [] event = "Next" -> on_next_track(stream_url, duration)
             [] event = "Previous" -> on_previous_track(stream_url, duration)
             [] OTHER -> sink_only(sink)
    /\ UNCHANGED a_call
    /\ UNCHANGED <<token_manager, media_event_receiver>>

\* Message::NextTrack from the button (delivered FALSE) or from the inbox
next_track_message(delivered, stream_url, duration) ==
    /\ IF delivered
       THEN /\ inbox # <<>>
            /\ Head(inbox).msg = "NextTrack"
            /\ inbox' = Tail(inbox)
       ELSE UNCHANGED inbox
    /\ on_next_track(stream_url, duration)
    /\ UNCHANGED a_call
    /\ UNCHANGED <<token_manager, media_event_receiver>>

\* Message::PreviousTrack from the button
previous_track_message(stream_url, duration) ==
    /\ on_previous_track(stream_url, duration)
    /\ UNCHANGED a_call
    /\ UNCHANGED <<token_manager, media_event_receiver, inbox>>

\* Message::TrackEnded, delivered from the inbox
track_ended ==
    /\ inbox # <<>>
    /\ Head(inbox).msg = "TrackEnded"
    /\ IF has_next
       THEN /\ inbox' = Append(Tail(inbox), Message("NextTrack"))
            /\ UNCHANGED sink
       ELSE /\ inbox' = Tail(inbox)
            /\ sink' = sink_clear(sink)
    /\ UNCHANGED a_call
    /\ UNCHANGED <<track_duration, track_position, progress_bar_value, stream_loading,
                   current_track_data, pending_stream_download, token_manager,
                   downloads, media_event_receiver, qvars>>

\* the OS sends a media-control event: the callback attached in MyApp::new puts it
\* in the channel
media_key_within(event, capacity) ==
    /\ Len(media_event_receiver) < capacity
    /\ media_event_receiver' = Append(media_event_receiver, event)
    /\ UNCHANGED a_call
    /\ UNCHANGED <<sink, track_duration, track_position, progress_bar_value,
                   stream_loading, current_track_data, pending_stream_download,
                   token_manager, downloads, inbox, qvars>>

media_key(event) == media_key_within(event, MaxEvents)

\* MyApp::new
AppInit ==
    /\ pending_stream_download = FALSE
    /\ token_manager = FALSE
    /\ downloads = 0
    /\ inbox = <<>>
    /\ media_event_receiver = <<>>

\* MyApp::new: title "Nothing", no task, no event
TrackingInit ==
    /\ inflight = <<>>
    /\ loaded_track = 0
    /\ shown = 0
    /\ outcome = "none"
    /\ intents = <<>>
    /\ handled = <<>>

(***************************************************************************)
(* Specifications.  The queue and the token lifecycle share no state: Spec *)
(* runs the QueueManager, TokenSpec the TokenManager and its clones,       *)
(* TimedTokenSpec the same while the clock advances, AudioSpec the         *)
(* AudioManager under any sequence of calls, AppSpec the update loop of    *)
(* MyApp with its QueueManager, RepeatSpec the QueueManager with           *)
(* reset_to_beginning, AuthErrorSpec the TokenManager with                 *)
(* handle_auth_error, StorageSpec the TokenStorage on its own, HelperSpec   *)
(* the *_with_refresh helpers.  Each step of a specification is the         *)
(* operation of the same name in lower case, given its inputs, with the    *)
(* state of the other components unchanged.                                *)
(***************************************************************************)
Init ==
    QueueInit /\ TokenInit /\ AudioInit /\ AppInit /\ StorageInit /\ HelperInit /\ TrackingInit

StartQueue ==
    /\ \E track_id \in TrackIds \cup {AbsentId}, tracks \in TrackLists :
          start_queue_from_track(track_id, tracks)
    /\ UNCHANGED <<tvars, avars, pvars, cvars, hvars>>

NextTrack == next_track /\ UNCHANGED <<tvars, avars, pvars, cvars, hvars>>

PreviousTrack == previous_track /\ UNCHANGED <<tvars, avars, pvars, cvars, hvars>>

Clear == clear /\ UNCHANGED <<tvars, avars, pvars, cvars, hvars>>

CurrentTrack == current_track_call /\ UNCHANGED <<tvars, avars, pvars, cvars, hvars>>

HasNext == has_next_call /\ UNCHANGED <<tvars, avars, pvars, cvars, hvars>>

HasPrevious == has_previous_call /\ UNCHANGED <<tvars, avars, pvars, cvars, hvars>>

Next ==
    \/ StartQueue
    \/ NextTrack
    \/ PreviousTrack
    \/ Clear
    \/ CurrentTrack
    \/ HasNext
    \/ HasPrevious

Spec == Init /\ [][Next]_vars

ResetToBeginning == reset_to_beginning /\ UNCHANGED <<tvars, avars, pvars, cvars, hvars>>

\* the QueueManager with the wraparound of repeat-all
RepeatNext ==
    \/ StartQueue
    \/ NextTrack
    \/ PreviousTrack
    \/ Clear
    \/ ResetToBeginning

RepeatSpec == Init /\ [][RepeatNext]_vars

Clone ==
    /\ \E h \in Handles, h2 \in Handles : clone(h, h2)
    /\ UNCHANGED <<qvars, avars, pvars, cvars, hvars>>

RefreshLoad ==
    /\ \E h \in Handles, io_ok \in BOOLEAN : refresh_load(h, io_ok)
    /\ UNCHANGED <<qvars, avars, pvars, cvars, hvars>>

\* the responses enumerated state their lifetime (expires_in), as SoundCloud's do
ExchangeOk ==
    /\ \E h \in Handles, rotate \in BOOLEAN, expires_in \in {Some(TokenLifetime)} :
          exchange_ok(h, rotate, expires_in)
    /\ UNCHANGED <<qvars, avars, pvars, cvars, hvars>>

ExchangeErr ==
    /\ \E h \in Handles, e \in OtherErrorTexts \cup {InvalidGrantText} : exchange_err(h, e)
    /\ UNCHANGED <<qvars, avars, pvars, cvars, hvars>>

RefreshSave ==
    /\ \E h \in Handles, io_ok \in BOOLEAN : refresh_save(h, io_ok)
    /\ UNCHANGED <<qvars, avars, pvars, cvars, hvars>>

RefreshSwap ==
    /\ \E h \in Handles : refresh_swap(h)
    /\ UNCHANGED <<qvars, avars, pvars, cvars, hvars>>

GetFreshTokenReturn ==
    /\ \E h \in Handles : get_fresh_token_return(h)
    /\ UNCHANGED <<qvars, avars, pvars, cvars, hvars>>

FileCorrupted == CorruptFile /\ UNCHANGED <<qvars, avars, pvars, cvars, hvars>>

ClockTick == Tick /\ UNCHANGED <<qvars, avars, pvars, cvars, hvars>>

TokenNext ==
    \/ Clone
    \/ RefreshLoad
    \/ ExchangeOk
    \/ ExchangeErr
    \/ RefreshSave
    \/ RefreshSwap
    \/ GetFreshTokenReturn
    \/ FileCorrupted

TokenSpec == Init /\ [][TokenNext]_vars

TimedTokenNext ==
    \/ Clone
    \/ RefreshLoad
    \/ ExchangeOk
    \/ ExchangeErr
    \/ RefreshSave
    \/ RefreshSwap
    \/ GetFreshTokenReturn
    \/ FileCorrupted
    \/ ClockTick

TimedTokenSpec == Init /\ [][TimedTokenNext]_vars

HandleAuthError ==
    /\ \E h \in Handles : handle_auth_error_begin(h)
    /\ UNCHANGED <<qvars, avars, pvars, cvars, hvars>>

AuthExchangeOk ==
    /\ \E h \in Handles, rotate \in BOOLEAN, expires_in \in {Some(TokenLifetime)} :
          auth_exchange_ok(h, rotate, expires_in)
    /\ UNCHANGED <<qvars, avars, pvars, cvars, hvars>>

AuthExchangeErr ==
    /\ \E h \in Handles, e \in OtherErrorTexts \cup {InvalidGrantText} :
          auth_exchange_err(h, e)
    /\ UNCHANGED <<qvars, avars, pvars, cvars, hvars>>

AuthSave ==
    /\ \E h \in Handles, io_ok \in BOOLEAN : auth_save(h, io_ok)
    /\ UNCHANGED <<qvars, avars, pvars, cvars, hvars>>

AuthSwap ==
    /\ \E h \in Handles : auth_swap(h)
    /\ UNCHANGED <<qvars, avars, pvars, cvars, hvars>>

\* get_fresh_token and handle_auth_error, called by the manager and its clones
AuthErrorNext ==
    \/ Clone
    \/ RefreshLoad
    \/ ExchangeOk
    \/ RefreshSave
    \/ RefreshSwap
    \/ GetFreshTokenReturn
    \/ FileCorrupted
    \/ HandleAuthError
    \/ AuthExchangeOk
    \/ AuthExchangeErr
    \/ AuthSave
    \/ AuthSwap

AuthErrorSpec == Init /\ [][AuthErrorNext]_vars

SaveToken ==
    /\ \E token \in TokenResponses, io_ok \in BOOLEAN : storage_save(token, io_ok)
    /\ UNCHANGED <<qvars, avars, pvars, hvars>>

LoadToken ==
    /\ \E io_ok \in BOOLEAN : storage_load(io_ok)
    /\ UNCHANGED <<qvars, avars, pvars, hvars>>

ClearToken ==
    /\ \E io_ok \in BOOLEAN : storage_clear(io_ok)
    /\ UNCHANGED <<qvars, avars, pvars, hvars>>

FileDamaged ==
    /\ \E d \in {Corrupt, Unreadable} : storage_damaged(d)
    /\ UNCHANGED <<qvars, avars, pvars, hvars>>

StorageNext ==
    \/ SaveToken
    \/ LoadToken
    \/ ClearToken
    \/ FileDamaged
    \/ ClockTick

StorageSpec == Init /\ [][StorageNext]_vars

LoadFeed ==
    /\ \E m \in Managers, api \in ApiAnswers : \E fresh \in get_fresh_token(m) :
          Helper("load_feed", m, None, Some(fresh), api,
                 load_feed_with_refresh(fresh, api))
    /\ UNCHANGED <<qvars, avars, pvars, hvars>>

LoadFavourites ==
    /\ \E m \in Managers, api \in ApiAnswers : \E fresh \in get_fresh_token(m) :
          Helper("load_favourites", m, None, Some(fresh), api,
                 load_favourites_with_refresh(fresh, api))
    /\ UNCHANGED <<qvars, avars, pvars, hvars>>

Search ==
    /\ \E m \in Managers, api \in ApiAnswers : \E fresh \in get_fresh_token(m) :
          Helper("search", m, None, Some(fresh), api, search_with_refresh(fresh, api))
    /\ UNCHANGED <<qvars, avars, pvars, hvars>>

LoadUserProfile ==
    /\ \E m \in Managers, api \in ApiAnswers : \E fresh \in get_fresh_token(m) :
          Helper("load_user_profile", m, None, Some(fresh), api,
                 load_user_profile_with_refresh(fresh, api))
    /\ UNCHANGED <<qvars, avars, pvars, hvars>>

LikeTrack ==
    /\ \E m \in Managers, api \in ApiAnswers : \E fresh \in get_fresh_token(m) :
          Helper("like_track", m, None, Some(fresh), api,
                 like_track_with_refresh(fresh, api))
    /\ UNCHANGED <<qvars, avars, pvars, hvars>>

GetTrackData ==
    /\ \E m \in Managers, api \in ApiAnswers : \E fresh \in get_fresh_token(m) :
          Helper("get_track_data", m, Some("stream_url"), Some(fresh), api,
                 get_track_data_with_refresh(fresh, api))
    /\ UNCHANGED <<qvars, avars, pvars, hvars>>

\* with no stream URL the helper returns before get_fresh_token and the API are
\* called
DownloadTrackStream ==
    /\ \E m \in Managers :
          \/ \E api \in ApiAnswers, fresh \in get_fresh_token(m) :
                Helper("download_track_stream", m, Some("stream_url"), Some(fresh), api,
                       download_track_stream(m, Some("stream_url"), fresh, api))
          \/ \E fresh \in {CHOOSE f \in get_fresh_token(m) : TRUE} :
                Helper("download_track_stream", m, None, None, ApiOk,
                       download_track_stream(m, None, fresh, ApiOk))
    /\ UNCHANGED <<qvars, avars, pvars, hvars>>

HelperNext ==
    \/ LoadFeed
    \/ LoadFavourites
    \/ Search
    \/ LoadUserProfile
    \/ LikeTrack
    \/ GetTrackData
    \/ DownloadTrackStream

HelperSpec == Init /\ [][HelperNext]_vars

LoadTrack ==
    /\ \E track_data \in TrackData :
          Apply(load_track(track_data), "load_track", 0, FALSE, FALSE)
    /\ UNCHANGED <<track_duration, qvars, tvars, pvars, cvars, hvars>>

TogglePlayPause ==
    /\ Apply(toggle_play_pause, "toggle_play_pause", 0, FALSE, FALSE)
    /\ UNCHANGED <<track_duration, qvars, tvars, pvars, cvars, hvars>>

Play ==
    /\ Apply(play, "play", 0, FALSE, FALSE)
    /\ UNCHANGED <<track_duration, qvars, tvars, pvars, cvars, hvars>>

Pause ==
    /\ Apply(pause, "pause", 0, FALSE, FALSE)
    /\ UNCHANGED <<track_duration, qvars, tvars, pvars, cvars, hvars>>

SeekForward ==
    /\ \E seek_amount \in SeekAmounts, live_ok \in BOOLEAN :
          /\ sink.pos + seek_amount <= MaxPos
          /\ Apply(seek_forward(seek_amount, live_ok), "seek_forward", seek_amount,
                   live_ok, FALSE)
    /\ UNCHANGED <<track_duration, qvars, tvars, pvars, cvars, hvars>>

SeekBackward ==
    /\ \E seek_amount \in SeekAmounts, answers \in SeekAnswers :
          Apply(seek_backward(seek_amount, answers[1], answers[2]), "seek_backward",
                seek_amount, answers[1], answers[2])
    /\ UNCHANGED <<track_duration, qvars, tvars, pvars, cvars, hvars>>

SeekToPosition ==
    /\ \E percent \in Percents, answers \in SeekAnswers :
          Apply(seek_to_position(percent, answers[1], answers[2]), "seek_to_position",
                percent, answers[1], answers[2])
    /\ UNCHANGED <<track_duration, qvars, tvars, pvars, cvars, hvars>>

UpdatePosition ==
    /\ Apply(update_position, "update_position", 0, FALSE, FALSE)
    /\ UNCHANGED <<track_duration, qvars, tvars, pvars, cvars, hvars>>

AudioClear ==
    /\ Apply(audio_clear, "clear", 0, FALSE, FALSE)
    /\ UNCHANGED <<track_duration, qvars, tvars, pvars, cvars, hvars>>

AnnounceTrack ==
    /\ \E duration \in Positions : announce_track(duration)
    /\ UNCHANGED <<qvars, tvars, pvars, cvars, hvars>>

Playback == playback /\ UNCHANGED <<track_duration, qvars, tvars, pvars, cvars, hvars>>

SourceEnd == source_end /\ UNCHANGED <<track_duration, qvars, tvars, pvars, cvars, hvars>>

AudioNext ==
    \/ LoadTrack
    \/ TogglePlayPause
    \/ Play
    \/ Pause
    \/ SeekForward
    \/ SeekBackward
    \/ SeekToPosition
    \/ UpdatePosition
    \/ AudioClear
    \/ AnnounceTrack
    \/ Playback
    \/ SourceEnd

AudioSpec == Init /\ [][AudioNext]_vars

OnStartQueue ==
    /\ \E track_id \in TrackIds, stream_url \in StreamUrls, duration \in TrackDurations :
          start_queue(track_id, PageTracks, stream_url, duration)
    /\ UNCHANGED <<tvars, cvars, hvars>>

OnQueueStreamDownloaded ==
    /\ \E track_data \in Downloaded : queue_stream_downloaded(track_data)
    /\ UNCHANGED <<tvars, cvars, hvars>>

OnQueueStreamFailed == queue_stream_failed /\ UNCHANGED <<tvars, cvars, hvars>>

OnPlayPausePlayback == play_pause_playback /\ UNCHANGED <<tvars, cvars, hvars>>

\* the ticks delivered while MaxInbox messages made by Task::done wait are left out
OnUiTick ==
    /\ Len(inbox) < MaxInbox
    /\ ui_tick
    /\ UNCHANGED <<tvars, cvars, hvars>>

OnMediaControlEvent ==
    /\ \E stream_url \in StreamUrls, duration \in TrackDurations :
          media_control_event(stream_url, duration)
    /\ UNCHANGED <<tvars, cvars, hvars>>

OnNextTrack ==
    /\ \E delivered \in BOOLEAN, stream_url \in StreamUrls, duration \in TrackDurations :
          next_track_message(delivered, stream_url, duration)
    /\ UNCHANGED <<tvars, cvars, hvars>>

OnPreviousTrack ==
    /\ \E stream_url \in StreamUrls, duration \in TrackDurations :
          previous_track_message(stream_url, duration)
    /\ UNCHANGED <<tvars, cvars, hvars>>

OnTrackEnded == track_ended /\ UNCHANGED <<tvars, cvars, hvars>>

MediaKey ==
    /\ \E event \in MediaControlEvents : media_key(event)
    /\ UNCHANGED <<tvars, cvars, hvars>>

AppNext ==
    \/ OnStartQueue
    \/ OnQueueStreamDownloaded
    \/ OnQueueStreamFailed
    \/ OnPlayPausePlayback
    \/ OnUiTick
    \/ OnMediaControlEvent
    \/ OnNextTrack
    \/ OnPreviousTrack
    \/ OnTrackEnded
    \/ MediaKey
    \/ Playback
    \/ SourceEnd

AppSpec == Init /\ [][AppNext]_vars

\* TrackEndSpec: the end of a track, left to itself.  One queue is started, every
\* track of it has a stream URL, no button and no media key is pressed: the queue
\* moves only by the NextTrack that TrackEnded sends.  Ticks go on while up to
\* MaxQueued messages made by Task::done wait for delivery.
MaxQueued == 2

OnFirstStartQueue ==
    /\ queue = <<>>
    /\ \E track_id \in TrackIds, duration \in TrackDurations :
          start_queue(track_id, PageTracks, Some("stream_url"), duration)
    /\ UNCHANGED <<tvars, cvars, hvars>>

OnUiTickQueued ==
    /\ Len(inbox) < MaxQueued
    /\ ui_tick
    /\ UNCHANGED <<tvars, cvars, hvars>>

OnNextTrackDelivered ==
    /\ \E duration \in TrackDurations :
          next_track_message(TRUE, Some("stream_url"), duration)
    /\ UNCHANGED <<tvars, cvars, hvars>>

TrackEndNext ==
    \/ OnFirstStartQueue
    \/ OnQueueStreamDownloaded
    \/ OnQueueStreamFailed
    \/ OnUiTickQueued
    \/ OnNextTrackDelivered
    \/ OnTrackEnded
    \/ Playback
    \/ SourceEnd

TrackEndSpec == Init /\ [][TrackEndNext]_vars

\* DownloadSpec: the download tasks of MyApp, each with the track it was started
\* for.  Every track has a stream URL; the tasks run concurrently and deliver
\* their results in any order.
\* start_track_download: the title is the track's, the task keeps a clone of it
download_started ==
    IF downloads' = downloads + 1
    THEN LET track == Unwrap(current_track_of(queue', current_index'))
         IN  /\ shown' = track.id
             /\ inflight' = Append(inflight, track.id)
    ELSE UNCHANGED <<shown, inflight>>

\* the task at place i of inflight has delivered its message
task_delivered(i, result) ==
    /\ inflight' = [k \in 1..(Len(inflight) - 1) |->
                        IF k < i THEN inflight[k] ELSE inflight[k + 1]]
    /\ outcome' = result

StartQueueDownload ==
    /\ \E track_id \in TrackIds, duration \in TrackDurations :
          start_queue(track_id, PageTracks, Some("stream_url"), duration)
    /\ download_started
    /\ UNCHANGED <<loaded_track, outcome, intents, handled, tvars, cvars>>

NextTrackDownload ==
    /\ \E duration \in TrackDurations :
          next_track_message(FALSE, Some("stream_url"), duration)
    /\ download_started
    /\ UNCHANGED <<loaded_track, outcome, intents, handled, tvars, cvars>>

PreviousTrackDownload ==
    /\ \E duration \in TrackDurations :
          previous_track_message(Some("stream_url"), duration)
    /\ download_started
    /\ UNCHANGED <<loaded_track, outcome, intents, handled, tvars, cvars>>

StreamDownloaded ==
    /\ \E i \in 1..Len(inflight), track_data \in Downloaded :
          /\ queue_stream_downloaded(track_data)
          /\ task_delivered(i, "downloaded")
          /\ loaded_track' = inflight[i]
    /\ UNCHANGED <<shown, intents, handled, tvars, cvars>>

StreamFailed ==
    /\ \E i \in 1..Len(inflight) :
          /\ queue_stream_failed
          /\ task_delivered(i, "failed")
    /\ UNCHANGED <<loaded_track, shown, intents, handled, tvars, cvars>>

DownloadNext ==
    \/ StartQueueDownload
    \/ NextTrackDownload
    \/ PreviousTrackDownload
    \/ StreamDownloaded
    \/ StreamFailed

DownloadSpec == Init /\ [][DownloadNext]_vars

\* MediaSpec: the media keys of the OS and the update loop, with the events sent
\* and the events handled written down.  Up to MaxIntents events are sent, and as
\* many may wait in the channel.  One queue is started and moves by the Next and
\* Previous keys only; no track plays to its end.  The tick subscription never
\* stops, the runtime delivers every message made by Task::done, and a download
\* task ends (which frees a place under MaxDownloads; the handlers themselves
\* never wait for one).
MaxIntents == 2

\* the events of souvlaki that MediaControlEvent answers other than by a seek
TransportIntents == {"Play", "Pause", "Toggle", "Next", "Previous"}

IntentReceived ==
    /\ Len(intents) < MaxIntents
    /\ \E event \in TransportIntents :
          /\ media_key_within(event, MaxIntents)
          /\ intents' = Append(intents, event)
    /\ UNCHANGED <<inflight, loaded_track, shown, outcome, handled, tvars, cvars>>

IntentHandled ==
    /\ \E duration \in TrackDurations :
          media_control_event(Some("stream_url"), duration)
    /\ handled' = Append(handled, Head(inbox).event)
    /\ UNCHANGED <<inflight, loaded_track, shown, outcome, intents, tvars, cvars>>

DownloadEnds == OnQueueStreamDownloaded \/ OnQueueStreamFailed

MediaNext ==
    \/ OnFirstStartQueue
    \/ IntentReceived
    \/ OnUiTickQueued
    \/ IntentHandled
    \/ OnQueueStreamDownloaded
    \/ OnQueueStreamFailed

MediaFairness ==
    /\ WF_vars(OnUiTickQueued)
    /\ WF_vars(IntentHandled)
    /\ WF_vars(DownloadEnds)

MediaSpec == Init /\ [][MediaNext]_vars /\ MediaFairness

(***************************************************************************)
(* Properties of the queue, checked under Spec.                            *)
(***************************************************************************)
IdIn(track_id, tracks) == \E i \in 1..Len(tracks) : tracks[i].id = track_id

\* tracks from index k (1-based) to the end, written without split_off
SuffixFrom(tracks, k) == [i \in 1..(Len(tracks) - k + 1) |-> tracks[k + i - 1]]

\* C1: after start_queue_from_track(id, L) with id present in L, the queue is the
\* suffix of L that starts at the first track carrying id, and the cursor is 0.
C1_QueueIsSuffixFromFirstOccurrence ==
    (q_call.op = "start_queue_from_track" /\ IdIn(q_call.id, q_call.list)) =>
        /\ \E k \in 1..Len(q_call.list) :
              /\ q_call.list[k].id = q_call.id
              /\ \A j \in 1..(k - 1) : q_call.list[j].id # q_call.id
              /\ queue = SuffixFrom(q_call.list, k)
        /\ current_index = Some(0)

\* the id occurs twice in the list, after an earlier track that is dropped
C1_Witness ==
    /\ q_call.op = "start_queue_from_track"
    /\ Len(q_call.list) = 3
    /\ q_call.list[1].id # q_call.id
    /\ q_call.list[2].id = q_call.id
    /\ q_call.list[3].id = q_call.id
    /\ queue = <<q_call.list[2], q_call.list[3]>>
    /\ current_index = Some(0)

\* C2: after start_queue_from_track(id, L) with id absent from L (L may be empty)
\* the queue is empty, the cursor is unset and current_track() is none.
C2_AbsentIdEmptiesQueue ==
    (q_call.op = "start_queue_from_track" /\ ~IdIn(q_call.id, q_call.list)) =>
        /\ queue = <<>>
        /\ current_index = None
        /\ current_track = None

C2_Witness ==
    /\ q_call.op = "start_queue_from_track"
    /\ Len(q_call.list) = 2
    /\ ~IdIn(q_call.id, q_call.list)
    /\ queue = <<>>
    /\ current_track = None

\* C3: the cursor, when present, is an index of the queue: 0 <= cursor <= len - 1.
C3_CursorInRange ==
    IsSome(current_index) =>
        /\ 0 <= Unwrap(current_index)
        /\ Unwrap(current_index) <= Len(queue) - 1

\* the cursor has been moved to the last index by next_track
C3_Witness ==
    /\ q_call.op = "next_track"
    /\ Len(queue) = 3
    /\ current_index = Some(2)

\* C4: next_track() at the last index and previous_track() at index 0 return none
\* and leave cursor and queue as they were, however often they are called.
C4_BoundaryNoOp ==
    [][ /\ ( /\ q_call'.op = "next_track"
             /\ IsSome(current_index)
             /\ Unwrap(current_index) = Len(queue) - 1 )
           => (q_call'.ret = None /\ UNCHANGED <<queue, current_index>>)
        /\ ( /\ q_call'.op = "previous_track"
             /\ current_index = Some(0) )
           => (q_call'.ret = None /\ UNCHANGED <<queue, current_index>>)
      ]_vars

\* previous_track() has just been refused at index 0 of a queue of three
C4_Witness ==
    /\ q_call.op = "previous_track"
    /\ q_call.ret = None
    /\ current_index = Some(0)
    /\ Len(queue) = 3

TrackA == [id |-> 1]

TrackB == [id |-> 2]

TrackC == [id |-> 3]

\* C5: away from the boundaries next_track() moves the cursor forward by one and
\* previous_track() back by one, each returning the track at the new cursor; the
\* queue built from [A,B,C] at B is [B,C] with cursor 0, next_track() makes C
\* current with has_next() false, previous_track() makes B current again.
C5_MoveByOneReturnsNewCurrent ==
    [][ /\ ( /\ q_call'.op = "next_track"
             /\ IsSome(current_index)
             /\ Unwrap(current_index) + 1 < Len(queue) )
           => /\ current_index' = Some(Unwrap(current_index) + 1)
              /\ q_call'.ret = Some(queue[Unwrap(current_index) + 2])
              /\ queue' = queue
        /\ ( /\ q_call'.op = "previous_track"
             /\ IsSome(current_index)
             /\ Unwrap(current_index) > 0 )
           => /\ current_index' = Some(Unwrap(current_index) - 1)
              /\ q_call'.ret = Some(queue[Unwrap(current_index)])
              /\ queue' = queue
        /\ ( /\ q_call'.op = "start_queue_from_track"
             /\ q_call'.list = <<TrackA, TrackB, TrackC>>
             /\ q_call'.id = TrackB.id )
           => (queue' = <<TrackB, TrackC>> /\ current_index' = Some(0))
        /\ ( /\ q_call'.op = "next_track"
             /\ queue = <<TrackB, TrackC>>
             /\ current_index = Some(0) )
           => (current_track' = Some(TrackC) /\ ~has_next')
        /\ ( /\ q_call'.op = "previous_track"
             /\ queue = <<TrackB, TrackC>>
             /\ current_index = Some(1) )
           => current_track' = Some(TrackB)
      ]_vars

\* the scenario has run to its end: B is current again, returned by previous_track
C5_Witness ==
    /\ original_tracks = <<TrackA, TrackB, TrackC>>
    /\ queue = <<TrackB, TrackC>>
    /\ q_call.op = "previous_track"
    /\ q_call.ret = Some(TrackB)
    /\ current_index = Some(0)

(***************************************************************************)
(* Properties of the token lifecycle.  A step of the call of handle h is   *)
(* recognised by the move of pc[h].                                        *)
(***************************************************************************)
Result(h) == Unwrap(call[h].result)

Response(h) == Unwrap(call[h].resp)

Begins(h) == pc[h] \in {"idle", "done"} /\ pc'[h] \in {"inflight", "refreshed"}

ExchangeFails(h) == pc[h] = "inflight" /\ pc'[h] = "done"

SaveSucceeds(h) == pc[h] = "exchanged" /\ pc'[h] = "saved"

SaveFails(h) == pc[h] = "exchanged" /\ pc'[h] = "done"

Swaps(h) == pc[h] = "saved" /\ pc'[h] = "refreshed"

Returns(h) == pc[h] = "refreshed" /\ pc'[h] = "done"

\* C6: a get_fresh_token() whose refresh exchange fails returns an error, and its
\* steps (the load of the file, the failed exchange) leave the shared cell, the
\* in-memory refresh token and the persisted credential as they were.
C6_FailedRefreshMutatesNothing ==
    [][ \A h \in Handles :
          /\ Begins(h) =>
                /\ cells' = cells
                /\ mgr' = mgr
                /\ Credential(disk') = Credential(disk)
          /\ ExchangeFails(h) =>
                /\ IsSome(call'[h].result)
                /\ ~call'[h].result[1].ok
                /\ cells' = cells
                /\ mgr' = mgr
                /\ Credential(disk') = Credential(disk)
      ]_vars

\* a call has failed on the exchange while a credential is stored and the
\* manager holds a refresh token
C6_Witness ==
    \E h \in Handles :
        /\ pc[h] = "done"
        /\ ~Result(h).ok
        /\ Result(h).err.kind = "OAuth"
        /\ IsStored(disk)
        /\ IsSome(mgr[h].refresh_token)
        /\ get_access_token(h) = 1

\* C7 as stated: a refresh token the server rejects with invalid_grant makes
\* get_fresh_token() return AuthError::OAuth("invalid_grant").
C7_ReturnsBareInvalidGrant ==
    [][ \A h \in Handles :
          (ExchangeFails(h) /\ Unwrap(call[h].refresh_token) \notin valid_rt) =>
              call'[h].result = Some(Err(OAuth(<<"invalid_grant">>)))
      ]_vars

\* C7 amended: the value returned is the classified error wrapped by
\* refresh_if_needed: AuthError::OAuth("Failed to refresh token during runtime:
\* OAuth error: invalid_grant").
C7_ReturnsWrappedInvalidGrant ==
    [][ \A h \in Handles :
          (ExchangeFails(h) /\ Unwrap(call[h].refresh_token) \notin valid_rt) =>
              call'[h].result =
                  Some(Err(OAuth(<<"Failed to refresh token during runtime: ",
                                   "OAuth error: ", "invalid_grant">>)))
      ]_vars

\* a call made with a refresh token the server no longer accepts has returned
C7_Witness ==
    \E h \in Handles :
        /\ pc[h] = "done"
        /\ ~Result(h).ok
        /\ Result(h).err.kind = "OAuth"
        /\ contains(Result(h).err.msg, "invalid_grant")
        /\ mgr[h].refresh_token \in {Some(rt) : rt \in (1..(issued + 1)) \ valid_rt}

\* C8: when the access token of the cell is expired at the call, get_fresh_token()
\* does not return Ok with that token.
C8_ExpiredTokenNeverReturned ==
    \A h \in Handles :
        (pc[h] = "done" /\ IsSome(call[h].stale) /\ Result(h).ok) =>
            Result(h).token # Unwrap(call[h].stale)

C10_ClonesShareCell ==
    [][ \A h \in Handles :
          Swaps(h) =>
              \A h2 \in Handles :
                  mgr'[h2].alive => get_access_token(h2)' = Response(h).access_token
      ]_vars

\* handle 2, whose own request is in flight, reads the token handle 1 has just
\* swapped in
C10_Witness ==
    /\ mgr[2].alive
    /\ pc[2] = "inflight"
    /\ pc[1] = "refreshed"
    /\ IsSome(call[1].resp)
    /\ get_access_token(2) = Response(1).access_token
    /\ get_access_token(2) # 1

\* C11: with a server that rotates refresh tokens, no call fails because of a
\* sibling's call: while a call is in flight with a refresh token the server
\* accepts, no step of another clone makes the server reject that token.
C11_SiblingNeverInvalidatesToken ==
    [][ \A h \in Handles :
          (/\ pc[h] = "inflight"
           /\ pc'[h] = "inflight"
           /\ Unwrap(call[h].refresh_token) \in valid_rt) =>
              Unwrap(call[h].refresh_token) \in valid_rt'
      ]_vars

\* C12: at most one refresh exchange is in flight at any time.
C12_AtMostOneRefreshInFlight ==
    Cardinality({h \in Handles : pc[h] = "inflight"}) <= 1

(***************************************************************************)
(* Properties of the AudioManager, checked under AudioSpec.                *)
(***************************************************************************)
\* the step is a call of the method op
Calls(op) == a_call'.op = op

\* the position seek_backward aims at
BackwardTarget == saturating_sub(sink.pos, a_call'.arg)

\* C13: seek_backward(amount) on a non-empty sink whose live backward seek is
\* unsupported, with retained bytes: the sink is rebuilt from the retained bytes,
\* the position becomes max(0, old position - amount), and the sink is paused
\* after the call exactly when it was paused before.
C13_RebuildKeepsPositionAndPausedState ==
    [][ (/\ Calls("seek_backward")
         /\ ~sink.empty
         /\ ~a_call'.live_ok
         /\ IsSome(current_track_data)) =>
            /\ a_call'.rebuilt
            /\ ~sink'.empty
            /\ sink'.len = Unwrap(current_track_data).len
            /\ sink'.pos = BackwardTarget
            /\ track_position' = BackwardTarget
            /\ sink'.paused = sink.paused
      ]_vars

\* C14 as stated: seek_backward returns false only when the retained bytes cannot
\* be decoded or no bytes were retained.
C14_FalseOnlyWithoutReplayableBytes ==
    [][ (Calls("seek_backward") /\ ~a_call'.ret) =>
            \/ current_track_data = None
            \/ ~Unwrap(current_track_data).decodable
      ]_vars

\* C14 amended: seek_backward returns false when the sink is empty, and, on a
\* non-empty sink whose direct seek fails, when no bytes were retained, when the
\* retained bytes cannot be decoded, or when the target is beyond zero and the
\* forward seek on the rebuilt sink fails; in every other case it returns true.
C14_FalseExactlyWhenNoSeekWasDone ==
    [][ Calls("seek_backward") =>
            (~a_call'.ret <=>
                \/ sink.empty
                \/ /\ ~a_call'.live_ok
                   /\ \/ current_track_data = None
                      \/ ~Unwrap(current_track_data).decodable
                      \/ BackwardTarget > 0 /\ ~a_call'.rebuilt_ok)
      ]_vars

\* seek_backward has returned false after rebuilding the sink from bytes that decode
C14_Witness ==
    /\ a_call.op = "seek_backward"
    /\ ~a_call.ret
    /\ a_call.rebuilt
    /\ ~sink.empty
    /\ IsSome(current_track_data)
    /\ Unwrap(current_track_data).decodable

\* C15: when load_track fails to decode, when seek_backward returns false or when
\* a forward seek fails, the sink, the retained bytes, the position, the progress
\* value and the loading flag are what they were before the attempt.
C15_FailureLeavesStateAsItWas ==
    [][ (/\ \/ Calls("load_track")
            \/ Calls("seek_backward")
            \/ Calls("seek_forward")
            \/ Calls("seek_to_position")
         /\ ~a_call'.ret) =>
            /\ sink' = sink
            /\ current_track_data' = current_track_data
            /\ track_position' = track_position
            /\ progress_bar_value' = progress_bar_value
            /\ stream_loading' = stream_loading
      ]_vars

\* C16: seek_to_position(percent) on a non-empty sink aims at duration * percent /
\* 100.  A target behind the position is sought as seek_backward does: on the live
\* sink when that is supported, else on a sink rebuilt from the retained bytes with
\* the paused state kept.  A target at or ahead of the position is sought on the
\* live sink only, which is never rebuilt.  The progress value becomes percent
\* when the seek has succeeded and is left alone otherwise.
C16_SeekToPositionDispatch ==
    [][ (Calls("seek_to_position") /\ ~sink.empty) =>
            LET target == mul_f32(track_duration, a_call'.arg)
            IN  /\ target < sink.pos =>
                      /\ a_call'.live_ok =>
                            /\ ~a_call'.rebuilt
                            /\ sink' = [sink EXCEPT !.pos = target]
                      /\ (~a_call'.live_ok /\ IsSome(current_track_data)) =>
                            /\ a_call'.rebuilt
                            /\ sink'.paused = sink.paused
                /\ target >= sink.pos =>
                      /\ ~a_call'.rebuilt
                      /\ sink' = IF a_call'.live_ok
                                 THEN [sink EXCEPT !.pos = target]
                                 ELSE sink
                /\ progress_bar_value' = IF a_call'.ret
                                         THEN F32(a_call'.arg)
                                         ELSE progress_bar_value
      ]_vars

\* C17, for a track longer than the tolerance: has_track_ended() is false right
\* after a successful load_track, whatever position the previous track had reached.
C17_NotEndedRightAfterLoad ==
    (a_call.op = "load_track" /\ a_call.ret /\ track_duration > EndTolerance) =>
        ~has_track_ended

\* C18: has_track_ended() is true exactly when the sink is not empty and the
\* tracked position is at least the duration less the tolerance; with an empty sink
\* it is false.
C18_EndedExactlyWithinTolerance ==
    /\ has_track_ended <=>
          (~sink.empty /\ track_position + EndTolerance >= track_duration)
    /\ sink.empty => ~has_track_ended

\* the tracked position is exactly the tolerance short of the duration
C18_Witness ==
    /\ ~sink.empty
    /\ track_position > 0
    /\ track_position + EndTolerance = track_duration
    /\ has_track_ended

\* the fields of the AudioManager
Fields ==
    <<sink, track_duration, track_position, progress_bar_value, stream_loading,
      current_track_data>>

\* C21: play(), pause() and toggle_play_pause() change nothing and publish nothing
\* on an empty sink; play() on a playing sink and pause() on a paused sink change
\* nothing and publish nothing; every other call changes the paused flag of the
\* sink (toggle flips it, play clears it, pause sets it), nothing else, and hands
\* the media controls the state the sink is in after the call.
C21_PlayPauseMirrored ==
    [][ (Calls("play") \/ Calls("pause") \/ Calls("toggle_play_pause")) =>
            LET idle == \/ sink.empty
                        \/ Calls("play") /\ ~sink.paused
                        \/ Calls("pause") /\ sink.paused
            IN  IF idle
                THEN /\ Fields' = Fields
                     /\ a_call'.published = None
                ELSE /\ sink' = [sink EXCEPT !.paused = ~sink.paused]
                     /\ <<track_duration, track_position, progress_bar_value,
                           stream_loading, current_track_data>>' =
                        <<track_duration, track_position, progress_bar_value,
                          stream_loading, current_track_data>>
                     /\ a_call'.published =
                           Some(IF sink'.paused THEN Paused ELSE Playing)
      ]_vars

\* play() has resumed a paused track and has published Playing
C21_Witness ==
    /\ a_call.op = "play"
    /\ a_call.published = Some(Playing)
    /\ ~sink.empty
    /\ ~sink.paused
    /\ sink.pos > 0

(***************************************************************************)
(* Properties of the update loop, checked under AppSpec.                   *)
(***************************************************************************)
\* the step puts Message::TrackEnded in the inbox
EmitsTrackEnded ==
    /\ Len(inbox') = Len(inbox) + 1
    /\ inbox'[Len(inbox')] = Message("TrackEnded")

\* the step takes an event out of the channel: a tick whose try_recv succeeds
TakesMediaEvent ==
    /\ media_event_receiver # <<>>
    /\ media_event_receiver' = Tail(media_event_receiver)

\* C19: while a stream download is in flight (started, its result not yet handled),
\* no tick emits TrackEnded, also when several downloads overlap.
C19_NoTrackEndedDuringDownload ==
    [][ EmitsTrackEnded => downloads = 0 ]_vars

\* C20: a tick that finds a media-control event hands it on and does nothing else;
\* TrackEnded is emitted only by a tick that found no event waiting and has set
\* the tracked position to the position of the sink in that same tick, and that
\* position is within the tolerance of the duration.
C20_TrackEndedOnlyFromRefreshedPosition ==
    [][ /\ TakesMediaEvent =>
              /\ inbox' = Append(inbox, MediaControlEvent(Head(media_event_receiver)))
              /\ track_position' = track_position
              /\ progress_bar_value' = progress_bar_value
        /\ EmitsTrackEnded =>
              /\ media_event_receiver = <<>>
              /\ ~sink.empty
              /\ sink' = sink
              /\ track_position' = sink.pos
              /\ sink.pos + EndTolerance >= track_duration
      ]_vars

\* a tick has emitted TrackEnded from a position it has just read from a playing
\* sink
C20_Witness ==
    /\ inbox # <<>>
    /\ inbox[Len(inbox)] = Message("TrackEnded")
    /\ ~sink.empty
    /\ track_position = sink.pos
    /\ track_position > 0
    /\ track_duration > EndTolerance

\* the step is the handling of a Message::MediaControlEvent taken from the inbox
HandlesMediaEvent ==
    /\ inbox # <<>>
    /\ Head(inbox).msg = "MediaControlEvent"
    /\ inbox' = Tail(inbox)

\* C22: while the sink is empty, the handling of a media-control event changes
\* neither the playback state nor the cursor of the queue nor the downloads.
C22_EventOnEmptySinkIsNoOp ==
    [][ (HandlesMediaEvent /\ sink.empty) =>
            /\ Fields' = Fields
            /\ current_index' = current_index
            /\ queue' = queue
            /\ downloads' = downloads
            /\ pending_stream_download' = pending_stream_download
      ]_vars

(***************************************************************************)
(* Properties of the refresh-aware helpers, checked under HelperSpec.      *)
(***************************************************************************)
\* C23: whatever get_fresh_token and the API answer, and also when the track has no
\* stream URL, the result of a helper carries the TokenManager the helper was
\* given: the manager as get_fresh_token has left it, pointing to the same cell.
C23_ManagerAlwaysHandedBack ==
    h_call.op # "new" =>
        LET given == Unwrap(h_call.given)
            held  == IF IsSome(h_call.fresh)
                     THEN Unwrap(h_call.fresh).token_manager ELSE given
        IN  /\ h_call.result.token_manager = Some(held)
            /\ held.cell = given.cell
            /\ held.alive

\* download_track_stream has failed on a track without stream URL and has returned
\* the manager it was given
C23_Witness ==
    /\ h_call.op = "download_track_stream"
    /\ h_call.stream_url = None
    /\ ~h_call.result.ok
    /\ h_call.result.token_manager = h_call.given
    /\ IsSome(Unwrap(h_call.given).refresh_token)

\* the error is the one the helpers make for a rate limit
RateLimitError(e) ==
    /\ e.kind = "Other"
    /\ Head(e.msg) \in {"Rate limited while searching: ",
                        "Rate limited while loading user profile: "}

\* C30: when the token is fresh and the API call of a helper of api_helpers.rs
\* fails, a failure whose text carries 401 or 403 comes back as AuthError::OAuth,
\* one whose text carries 429 as the rate-limit error, any other as a generic error.
C30_FailuresClassified ==
    (/\ h_call.op \notin {"new", "download_track_stream"}
     /\ Unwrap(h_call.fresh).result.ok
     /\ ~h_call.api.ok) =>
        LET text == h_call.api.text
            e == Unwrap(h_call.result.err)
        IN  IF contains(text, "401") \/ contains(text, "403")
            THEN e.kind = "OAuth"
            ELSE IF contains(text, "429")
            THEN RateLimitError(e)
            ELSE e.kind = "Other" /\ ~RateLimitError(e)

(***************************************************************************)
(* Properties of TokenStorage, checked under StorageSpec.                  *)
(***************************************************************************)
\* the step is a call of the TokenStorage method op
StorageCalls(op) == now' = now /\ s_call'.op = op

\* C24: a load of a file that is missing or whose content is damaged does not fail
\* (the file system working): it yields no credential, and a damaged file is
\* deleted, so that the file is missing afterwards.
C24_LoadNeverFailsOnContent ==
    [][ (StorageCalls("load_token") /\ s_call'.io_ok /\ ~IsStored(disk)) =>
            /\ s_call'.res = "Ok"
            /\ s_call'.value = None
            /\ disk' = Absent
      ]_vars

\* C25: a load that follows a successful save yields the StoredToken that was
\* saved, field for field, and a credential loaded whose expires_at is not after
\* the current time is reported expired.
C25_RoundTrip ==
    [][ (/\ s_call.op = "save_token"
         /\ s_call.res = "Ok"
         /\ StorageCalls("load_token")
         /\ s_call'.io_ok) =>
            /\ s_call'.res = "Ok"
            /\ s_call'.value = s_call.stored
            /\ LET loaded == Unwrap(s_call'.value)
               IN  (IsSome(loaded.expires_at) /\ ~(Unwrap(loaded.expires_at) > now))
                       => s_call'.expired
      ]_vars

\* a credential saved at an earlier time, with a refresh token, has been loaded and
\* is reported expired
C25_Witness ==
    /\ s_call.op = "load_token"
    /\ s_call.res = "Ok"
    /\ IsSome(s_call.value)
    /\ Unwrap(s_call.value).access_token = 2
    /\ IsSome(Unwrap(s_call.value).refresh_token)
    /\ Unwrap(s_call.value).expires_at = Some(0)
    /\ Unwrap(s_call.value).created_at < now
    /\ s_call.expired

(***************************************************************************)
(* Properties of handle_auth_error, checked under AuthErrorSpec.           *)
(***************************************************************************)
\* handle_auth_error is called on h
AuthErrorBegins(h) ==
    /\ pc[h] \in {"idle", "done"}
    /\ pc'[h] \in {"auth_inflight", "done"}
    /\ <<pc'[h], call'[h]>> # <<pc[h], call[h]>>

\* the call of handle_auth_error on h returns because its exchange has failed
AuthExchangeFails(h) == pc[h] = "auth_inflight" /\ pc'[h] = "done"

QueueCalls(op) == q_call'.op = op

\* C27: has_next() and has_previous() leave the QueueManager as it is and answer
\* as the navigation does: next_track() returns a track exactly when has_next() was
\* true before the call, previous_track() exactly when has_previous() was.
C27_BoundaryChecksAgreeWithNavigation ==
    [][ /\ (QueueCalls("has_next") \/ QueueCalls("has_previous")) =>
              UNCHANGED <<queue, current_index, original_tracks>>
        /\ QueueCalls("next_track") =>
              /\ IsSome(q_call'.ret) <=> has_next
              /\ current_index' # current_index <=> has_next
        /\ QueueCalls("previous_track") =>
              /\ IsSome(q_call'.ret) <=> has_previous
              /\ current_index' # current_index <=> has_previous
      ]_vars

\* has_next() has answered false at the last index of a queue of several tracks
C27_Witness ==
    /\ q_call.op = "has_next"
    /\ q_call.ret = FALSE
    /\ Len(queue) > 1
    /\ current_index = Some(Len(queue) - 1)
    /\ has_previous

\* C28: reset_to_beginning() puts the cursor at index 0 and leaves the tracks of
\* the queue and their order as they were.
C28_ResetKeepsQueue ==
    [][ QueueCalls("reset_to_beginning") =>
            /\ current_index' = Some(0)
            /\ queue' = queue
      ]_vars

\* the cursor was moved to the last of three tracks of a queue that is a proper
\* suffix of its list, and reset_to_beginning() has brought it back to the first
C28_Witness ==
    /\ q_call.op = "reset_to_beginning"
    /\ current_index = Some(0)
    /\ Len(queue) = 2
    /\ Len(original_tracks) = 3
    /\ queue[1] # queue[2]

\* C29: no step of next_track, previous_track, has_next, has_previous or
\* current_track changes the tracks of the queue or their order; a step that
\* changes them is a start_queue_from_track or a clear.
C29_QueueNeverReorderedInPlace ==
    [][ /\ q_call'.op \in {"next_track", "previous_track", "has_next", "has_previous",
                           "current_track"} => queue' = queue
        /\ queue' # queue => q_call'.op \in {"start_queue_from_track", "clear"}
      ]_vars

\* next_track() has moved the cursor to the second of three different tracks
C29_Witness ==
    /\ q_call.op = "next_track"
    /\ current_index = Some(1)
    /\ Len(queue) = 3
    /\ q_call.ret = Some(queue[2])
    /\ queue[1] # queue[2]
    /\ queue[2] # queue[3]
    /\ queue = original_tracks

\* C40: in every reachable state of the QueueManager the cursor is unset exactly when
\* the queue is empty, and a queue that is not empty has a current track.
C40_CursorUnsetIffQueueEmpty ==
    /\ current_index = None <=> queue = <<>>
    /\ queue # <<>> => IsSome(current_track)

\* next_track() has moved the cursor of a queue of two tracks onto the second
C40_Witness ==
    /\ q_call.op = "next_track"
    /\ Len(queue) = 2
    /\ current_index = Some(1)
    /\ current_track = Some(queue[2])

\* no call of get_fresh_token() is under way
Quiescent == \A h \in Handles : pc[h] \in {"idle", "done"}

\* C37: once every refresh of the sibling clones has completed, the access token in
\* the shared cell is the access token of the credential in the file, whatever the
\* order in which the calls saved to the file and swapped the cell.
C37_CellMatchesDiskAfterRefreshes ==
    (Quiescent /\ IsSome(Credential(disk))) =>
        \A h \in Handles :
            mgr[h].alive => get_access_token(h) = Unwrap(Credential(disk)).access_token

\* C38: a successful get_fresh_token() does not lose the ability to refresh: the call
\* a handle makes after a call of its own that returned Ok finds a refresh token and
\* goes on to the refresh exchange, also when the response carried no refresh token.
C38_NextCallStillRefreshes ==
    [][ \A h \in Handles :
          (Begins(h) /\ pc[h] = "done" /\ Result(h).ok) => pc'[h] = "inflight"
      ]_vars

\* C31: when a refresh fails terminally, the server answering invalid_grant for the
\* refresh token of the persisted credential while no sibling is about to save a
\* newer one, the credential goes to Unauthenticated: after the failed call the file
\* no longer offers the dead refresh token, so that no later call uses it and a login
\* is required.
C31_InvalidGrantUnauthenticates ==
    [][ \A h \in Handles :
          (/\ ExchangeFails(h)
           /\ Unwrap(call[h].refresh_token) \notin valid_rt
           /\ \A h2 \in Handles \ {h} : pc[h2] \in {"idle", "done"}
           /\ IsSome(Credential(disk))
           /\ Unwrap(Credential(disk)).refresh_token = call[h].refresh_token) =>
              \/ Credential(disk)' = None
              \/ Unwrap(Credential(disk)').refresh_token # call[h].refresh_token
      ]_vars

(***************************************************************************)
(* Properties of the end of a track, checked under TrackEndSpec.           *)
(***************************************************************************)
\* the step delivers the NextTrack that a TrackEnded has sent
DeliversNextTrack ==
    inbox # <<>> /\ Head(inbox).msg = "NextTrack" /\ inbox' = Tail(inbox)

\* the step delivers a TrackEnded
DeliversTrackEnded ==
    /\ inbox # <<>>
    /\ Head(inbox).msg = "TrackEnded"
    /\ Len(inbox') = IF has_next THEN Len(inbox) ELSE Len(inbox) - 1
    /\ UNCHANGED <<track_position, pending_stream_download, qvars>>

\* C35: each track end advances the queue by one track.  With the queue moved by
\* track ends alone, a NextTrack does not move the cursor while the stream of the
\* successor, which the NextTrack of this track end has asked for, is still loading.
C35_OneAdvancePerTrackEnd ==
    [][ (DeliversNextTrack /\ pending_stream_download) =>
            current_index' = current_index
      ]_vars

\* C34: when the track ends and the queue has no next track, playback is cleared,
\* and no further TrackEnded is signalled until a new track is loaded: the
\* end-of-queue handling happens once, for a track that is in the sink, and is not
\* run again on the sink it has cleared.
C34_EndOfQueueHandledOnce ==
    [][ (DeliversTrackEnded /\ ~has_next) => (~sink.empty /\ sink'.empty) ]_vars

(***************************************************************************)
(* The retained bytes, checked under AudioSpec.                            *)
(***************************************************************************)
\* C39: whenever the sink is not empty, the retained bytes are the bytes of the track
\* loaded in the sink: the two are replaced together, and a rebuild for a backward
\* seek plays the same track again.
C39_RetainedBytesAreSinkBytes ==
    ~sink.empty =>
        /\ IsSome(current_track_data)
        /\ Unwrap(current_track_data).decodable
        /\ Unwrap(current_track_data).len = sink.len

\* seek_backward has rebuilt the sink from the retained bytes of a track of length 2
C39_Witness ==
    /\ a_call.op = "seek_backward"
    /\ a_call.rebuilt
    /\ ~sink.empty
    /\ sink.len = 2
    /\ current_track_data = Some([decodable |-> TRUE, len |-> 2])


(***************************************************************************)
(* Properties of the download tasks, checked under DownloadSpec.           *)
(***************************************************************************)
\* C36: once every download started has completed, the audio in the sink, the
\* title displayed and the queue's current track are of the same track
C36_CompletedDownloadsAgree ==
    (inflight = <<>> /\ ~sink.empty) =>
        /\ loaded_track = shown
        /\ IsSome(current_track)
        /\ Unwrap(current_track).id = shown

\* a step that handles QueueStreamFailed
HandlesFailure == Len(inflight') < Len(inflight) /\ outcome' = "failed"

\* C33: handling a failed download leaves the queue and its cursor as they were
\* and clears stream_loading and pending_stream_download
C33_FailureLeavesQueueAlone ==
    [][HandlesFailure =>
          /\ queue' = queue
          /\ current_index' = current_index
          /\ ~stream_loading'
          /\ ~pending_stream_download']_vars

\* a failure handled after the cursor has moved, no other download running
C33_Witness ==
    /\ outcome = "failed"
    /\ inflight = <<>>
    /\ Len(queue) > 1
    /\ IsSome(current_index)
    /\ Unwrap(current_index) > 0
    /\ ~stream_loading
    /\ ~pending_stream_download


(***************************************************************************)
(* Properties of the media keys, checked under MediaSpec.                  *)
(***************************************************************************)
IsPrefix(s, t) == Len(s) <= Len(t) /\ \A i \in 1..Len(s) : s[i] = t[i]

====
